---- MODULE Spec2Model ----
(***************************************************************************)
(* Transcript-processing bot: socket-mode event dispatch, transcript       *)
(* extraction, notification rendering, message state extraction and the    *)
(* four-outcome decision router.                                           *)
(*                                                                         *)
(* Texts are sequences of tokens.  A token is either a piece of markup     *)
(* ("*", a newline, a blank, a bullet, a dash), a label word such as       *)
(* "Company:", or a content word.  The string operations of the source     *)
(* (split, strip, replace, startswith, ...) are computed on these          *)
(* sequences exactly as Python computes them on characters.                *)
(***************************************************************************)
EXTENDS Integers, Sequences, FiniteSets, TLC

NL   == "\n"
SP   == " "
STAR == "*"
BUL  == "(bullet)"
DASH == "-"

Whitespace == {NL, SP}

(***************************************************************************)
(* Python string helpers on token sequences                                *)
(***************************************************************************)
Drop(s, n) == IF n >= Len(s) THEN <<>> ELSE SubSeq(s, n + 1, Len(s))
Take(s, n) == IF n <= 0 THEN <<>> ELSE SubSeq(s, 1, IF n > Len(s) THEN Len(s) ELSE n)

\* pat occurs in s starting at position i
MatchAt(s, pat, i) ==
    /\ i >= 1
    /\ i + Len(pat) - 1 <= Len(s)
    /\ \A k \in 1..Len(pat) : s[i + k - 1] = pat[k]

\* str.find: first position of pat in s, 0 when absent
Find(s, pat) ==
    IF \E i \in 1..Len(s) : MatchAt(s, pat, i)
    THEN CHOOSE i \in 1..Len(s) : MatchAt(s, pat, i) /\ \A j \in 1..(i - 1) : ~MatchAt(s, pat, j)
    ELSE 0

\* the `in` operator on strings
Contains(s, pat) == Find(s, pat) # 0

\* str.split(sep): the pieces between successive occurrences of sep
RECURSIVE Split(_, _)
Split(s, sep) ==
    LET i == Find(s, sep)
    IN  IF i = 0 THEN <<s>>
        ELSE <<Take(s, i - 1)>> \o Split(Drop(s, i + Len(sep) - 1), sep)

\* str.lstrip(chars) / str.rstrip(chars) / str.strip()
RECURSIVE LStripSet(_, _)
LStripSet(s, cs) ==
    IF s # <<>> /\ s[1] \in cs THEN LStripSet(Tail(s), cs) ELSE s

RECURSIVE RStripSet(_, _)
RStripSet(s, cs) ==
    IF s # <<>> /\ s[Len(s)] \in cs THEN RStripSet(Take(s, Len(s) - 1), cs) ELSE s

Strip(s) == RStripSet(LStripSet(s, Whitespace), Whitespace)

\* str.replace(tok, '') and str.replace(a, b) for single tokens
RECURSIVE Remove(_, _)
Remove(s, tok) ==
    IF s = <<>> THEN <<>>
    ELSE IF s[1] = tok THEN Remove(Tail(s), tok)
    ELSE <<s[1]>> \o Remove(Tail(s), tok)

Replace(s, a, b) == [i \in 1..Len(s) |-> IF s[i] = a THEN b ELSE s[i]]

StartsWith(s, tok) == s # <<>> /\ s[1] = tok
EndsWith(s, tok)   == s # <<>> /\ s[Len(s)] = tok

\* sep.join(items)
RECURSIVE Join(_, _)
Join(items, sep) ==
    IF items = <<>> THEN <<>>
    ELSE IF Len(items) = 1 THEN items[1]
    ELSE items[1] \o sep \o Join(Tail(items), sep)

\* a list comprehension [f(x) for x in items if keep]
RECURSIVE ConcatAll(_)
ConcatAll(ss) == IF ss = <<>> THEN <<>> ELSE ss[1] \o ConcatAll(Tail(ss))

(***************************************************************************)
(* Slack message blocks                                                    *)
(***************************************************************************)
Header(text)      == [type |-> "header",  text |-> text, elements |-> <<>>]
Section(text)     == [type |-> "section", text |-> text, elements |-> <<>>]
Context(text)     == [type |-> "context", text |-> text, elements |-> <<>>]
Divider           == [type |-> "divider", text |-> <<>>, elements |-> <<>>]
Actions(elements) == [type |-> "actions", text |-> <<>>, elements |-> elements]

CompanyLabel   == <<STAR, "Company:", STAR>>
SummaryLabel   == <<STAR, "Summary:", STAR>>
KeyPointsLabel == <<STAR, "Key Points:", STAR>>
NextStepsLabel == <<STAR, "Next Steps:", STAR>>

(***************************************************************************)
(* AgentWorkflow._extract_state_from_blocks                                *)
(***************************************************************************)
EmptyStateData ==
    [company_name |-> <<>>, summary |-> <<>>, key_points |-> <<>>, next_steps |-> <<>>]

\* the bullet loop under "*Key Points:*" and "*Next Steps:*"
RECURSIVE BulletLines(_)
BulletLines(lines) ==
    IF lines = <<>> THEN <<>>
    ELSE LET line  == Strip(lines[1])
             point == Strip(LStripSet(line, {BUL}))
             keep  == /\ line # <<>>
                      /\ StartsWith(line, BUL)
                      /\ point # <<>>
                      /\ ~StartsWith(point, STAR)
                      /\ ~EndsWith(point, STAR)
         IN  (IF keep THEN <<point>> ELSE <<>>) \o BulletLines(Tail(lines))

BulletItems(text, label) == BulletLines(Split(Strip(Split(text, label)[2]), <<NL>>))

\* the items of a section that continues the current list
RECURSIVE ValidItems(_)
ValidItems(lines) ==
    IF lines = <<>> THEN <<>>
    ELSE LET item == Strip(LStripSet(LStripSet(Strip(lines[1]), {BUL}), {DASH}))
             keep == item # <<>> /\ ~StartsWith(item, STAR) /\ ~EndsWith(item, STAR)
         IN  (IF keep THEN <<item>> ELSE <<>>) \o ValidItems(Tail(lines))

\* one iteration of the loop over blocks: acc = [sd, cur]
ExtractBlock(acc, block) ==
    IF block.type # "section" THEN acc
    ELSE LET text == block.text
             sd   == acc.sd
         IN  IF Contains(text, CompanyLabel) THEN
                 [sd  |-> [sd EXCEPT !.company_name =
                             Strip(Replace(Remove(Strip(Split(text, CompanyLabel)[2]), STAR), NL, SP))],
                  cur |-> "company"]
             ELSE IF Contains(text, SummaryLabel) THEN
                 [sd  |-> [sd EXCEPT !.summary =
                             Strip(Remove(Strip(Split(text, SummaryLabel)[2]), STAR))],
                  cur |-> "summary"]
             ELSE IF Contains(text, KeyPointsLabel) THEN
                 [sd  |-> [sd EXCEPT !.key_points = BulletItems(text, KeyPointsLabel)],
                  cur |-> "key_points"]
             ELSE IF Contains(text, NextStepsLabel) THEN
                 [sd  |-> [sd EXCEPT !.next_steps = BulletItems(text, NextStepsLabel)],
                  cur |-> "next_steps"]
             ELSE IF acc.cur = "key_points" THEN
                 [sd  |-> [sd EXCEPT !.key_points = @ \o ValidItems(Split(text, <<NL>>))],
                  cur |-> acc.cur]
             ELSE IF acc.cur = "next_steps" THEN
                 [sd  |-> [sd EXCEPT !.next_steps = @ \o ValidItems(Split(text, <<NL>>))],
                  cur |-> acc.cur]
             ELSE acc

RECURSIVE ExtractLoop(_, _)
ExtractLoop(acc, blocks) ==
    IF blocks = <<>> THEN acc
    ELSE ExtractLoop(ExtractBlock(acc, blocks[1]), Tail(blocks))

_extract_state_from_blocks(blocks) ==
    ExtractLoop([sd |-> EmptyStateData, cur |-> "none"], blocks).sd

(***************************************************************************)
(* Text-generation replies and json.loads                                  *)
(*                                                                         *)
(* A reply is a token sequence; a JSON string literal is the tokens        *)
(* between two QUOTE tokens.                                               *)
(***************************************************************************)
QUOTE  == "(quote)"
FENCE  == "(fence)"
JSONW  == "json"
LBRACE == "{"
RBRACE == "}"
LBRACK == "["
RBRACK == "]"
COLON  == ":"
COMMA  == ","
NULL   == "null"

NumberTokens == {"5000000", "150"}

JStr(s)          == [t |-> "str",  s |-> s,    items |-> <<>>,  keys |-> <<>>]
JNum(n)          == [t |-> "num",  s |-> <<n>>, items |-> <<>>, keys |-> <<>>]
JNull            == [t |-> "null", s |-> <<>>, items |-> <<>>,  keys |-> <<>>]
JList(items)     == [t |-> "list", s |-> <<>>, items |-> items, keys |-> <<>>]
JObj(keys, vals) == [t |-> "obj",  s |-> <<>>, items |-> vals,  keys |-> keys]

ParseFail        == [ok |-> FALSE, v |-> JNull, rest |-> <<>>]
ParseOk(v, rest) == [ok |-> TRUE,  v |-> v,     rest |-> rest]

SkipWs(ts) == LStripSet(ts, Whitespace)

\* a string literal: ts[1] is the opening QUOTE
ParseString(ts) ==
    LET body == Tail(ts)
        j    == Find(body, <<QUOTE>>)
    IN  IF j = 0 THEN ParseFail
        ELSE ParseOk(JStr(Take(body, j - 1)), Drop(body, j))

RECURSIVE ParseValue(_)
RECURSIVE ParseElements(_, _)
RECURSIVE ParseMembers(_, _, _)

ParseValue(ts0) ==
    LET ts == SkipWs(ts0)
    IN  IF ts = <<>> THEN ParseFail
        ELSE IF ts[1] = QUOTE THEN ParseString(ts)
        ELSE IF ts[1] = LBRACE THEN
            LET t2 == SkipWs(Tail(ts))
            IN  IF t2 # <<>> /\ t2[1] = RBRACE
                THEN ParseOk(JObj(<<>>, <<>>), Tail(t2))
                ELSE ParseMembers(t2, <<>>, <<>>)
        ELSE IF ts[1] = LBRACK THEN
            LET t2 == SkipWs(Tail(ts))
            IN  IF t2 # <<>> /\ t2[1] = RBRACK
                THEN ParseOk(JList(<<>>), Tail(t2))
                ELSE ParseElements(t2, <<>>)
        ELSE IF ts[1] = NULL THEN ParseOk(JNull, Tail(ts))
        ELSE IF ts[1] \in NumberTokens THEN ParseOk(JNum(ts[1]), Tail(ts))
        ELSE ParseFail

ParseElements(ts, acc) ==
    LET r == ParseValue(ts)
        t == SkipWs(r.rest)
    IN  IF ~r.ok \/ t = <<>> THEN ParseFail
        ELSE IF t[1] = COMMA  THEN ParseElements(Tail(t), Append(acc, r.v))
        ELSE IF t[1] = RBRACK THEN ParseOk(JList(Append(acc, r.v)), Tail(t))
        ELSE ParseFail

ParseMembers(ts, keys, vals) ==
    LET t1 == SkipWs(ts)
    IN  IF t1 = <<>> \/ t1[1] # QUOTE THEN ParseFail
        ELSE LET k  == ParseString(t1)
                 t2 == SkipWs(k.rest)
             IN  IF ~k.ok \/ t2 = <<>> \/ t2[1] # COLON THEN ParseFail
                 ELSE LET r  == ParseValue(Tail(t2))
                          t3 == SkipWs(r.rest)
                      IN  IF ~r.ok \/ t3 = <<>> THEN ParseFail
                          ELSE IF t3[1] = COMMA THEN
                              ParseMembers(Tail(t3), Append(keys, k.v.s), Append(vals, r.v))
                          ELSE IF t3[1] = RBRACE THEN
                              ParseOk(JObj(Append(keys, k.v.s), Append(vals, r.v)), Tail(t3))
                          ELSE ParseFail

\* json.loads: [ok, v]; not ok is JSONDecodeError
json_loads(ts) ==
    LET r == ParseValue(ts)
    IN  IF r.ok /\ SkipWs(r.rest) = <<>> THEN [ok |-> TRUE, v |-> r.v]
        ELSE [ok |-> FALSE, v |-> JNull]

\* dict.get(key): the last member with that key, None when there is none
DictGet(obj, key) ==
    LET hits == {i \in 1..Len(obj.keys) : obj.keys[i] = key}
    IN  IF hits = {} THEN JNull
        ELSE obj.items[CHOOSE i \in hits : \A j \in hits : j <= i]

\* str.rfind for one token: last position, 0 when absent
RFind(s, tok) ==
    IF \E i \in 1..Len(s) : s[i] = tok
    THEN CHOOSE i \in 1..Len(s) : s[i] = tok /\ \A j \in (i + 1)..Len(s) : s[j] # tok
    ELSE 0

\* the cleaning of a reply before json.loads (the same in the three steps)
CleanResponse(response0) ==
    LET response1 == Strip(response0)
        parts     == Split(response1, <<FENCE>>)
        response2 == IF Contains(response1, <<FENCE>>)
                     THEN Strip(Remove(IF Contains(parts[1], <<FENCE>>)
                                       THEN parts[Len(parts) - 1]
                                       ELSE parts[2], JSONW))
                     ELSE response1
        start     == Find(response2, <<LBRACE>>)
        end       == RFind(response2, RBRACE)
    IN  IF start # 0 /\ end # 0
        THEN (IF end < start THEN <<>> ELSE SubSeq(response2, start, end))
        ELSE response2

(***************************************************************************)
(* TranscriptionAgent                                                      *)
(*                                                                         *)
(* A reply of the text-generation service is [ok, text]: ok = FALSE is     *)
(* _call_llm raising AgentProcessingError.                                 *)
(***************************************************************************)
LLMError    == [ok |-> FALSE, text |-> <<>>]
LLMText(ts) == [ok |-> TRUE,  text |-> ts]

IndustryType == {"ai", "saas", "fintech", "healthcare", "biotech", "other"}
CompanyStage == {"seed", "series_a", "series_b", "series_c", "growth"}

K(word) == <<word>>

\* _extract_basic_info, after json.loads: the required fields are checked
BasicInfoOf(parsed) ==
    IF ~parsed.ok THEN [ok |-> FALSE, v |-> JNull]
    ELSE IF parsed.v.t # "obj" THEN [ok |-> FALSE, v |-> JNull]
    ELSE IF DictGet(parsed.v, K("summary")).t # "str"
            \/ DictGet(parsed.v, K("key_points")).t # "list"
         THEN [ok |-> FALSE, v |-> JNull]
    ELSE [ok |-> TRUE, v |-> parsed.v]

\* _extract_basic_info: [ok, v]; not ok is AgentProcessingError
_extract_basic_info(reply) ==
    IF ~reply.ok THEN [ok |-> FALSE, v |-> JNull]
    ELSE BasicInfoOf(json_loads(CleanResponse(reply.text)))

\* str(point) of a key point taken from the parsed list
PointText(v) == IF v.t \in {"str", "num"} THEN v.s ELSE <<"None">>

\* the mandatory step without the check for meaningful content
BasicOfLenient(reply_ok, basic_info) ==
    IF ~basic_info.ok
    THEN [ok |-> FALSE, summary |-> <<>>, key_points |-> <<>>,
          error |-> <<"Failed to analyze transcript:">>]
    ELSE [ok |-> TRUE,
          summary    |-> DictGet(basic_info.v, K("summary")).s,
          key_points |-> [i \in 1..Len(DictGet(basic_info.v, K("key_points")).items) |->
                             DictGet(basic_info.v, K("key_points")).items[i].s],
          error      |-> <<>>]

\* process, the mandatory step on the extracted basics: [ok, summary,
\* key_points, error]; not ok is AgentProcessingError with that text
BasicOf(reply_ok, basic_info) ==
    IF ~basic_info.ok
    THEN [ok |-> FALSE, summary |-> <<>>, key_points |-> <<>>,
          error |-> <<"Failed to analyze transcript:", SP>>
                    \o (IF reply_ok THEN <<"Failed to extract basic info">>
                        ELSE <<"LLM call failed">>)]
    ELSE IF Strip(DictGet(basic_info.v, K("summary")).s) = <<>>
            \/ DictGet(basic_info.v, K("key_points")).items = <<>>
    THEN [ok |-> FALSE, summary |-> <<>>, key_points |-> <<>>,
          error |-> <<"Failed to analyze transcript:", SP,
                      "Failed to extract meaningful information from transcript">>]
    ELSE [ok |-> TRUE,
          summary    |-> DictGet(basic_info.v, K("summary")).s,
          key_points |-> [i \in 1..Len(DictGet(basic_info.v, K("key_points")).items) |->
                             PointText(DictGet(basic_info.v, K("key_points")).items[i])],
          error      |-> <<>>]

ProcessBasic(reply) == BasicOf(reply.ok, _extract_basic_info(reply))

\* _extract_company_info, after json.loads: [some, v]; some = FALSE is None
CompanyInfoOf(parsed) ==
    IF ~parsed.ok THEN [some |-> FALSE, v |-> JNull]
    ELSE IF parsed.v.t # "obj" THEN [some |-> FALSE, v |-> JNull]
    ELSE IF DictGet(parsed.v, K("name")).t # "str" THEN [some |-> FALSE, v |-> JNull]
    ELSE [some |-> TRUE, v |-> parsed.v]

_extract_company_info(reply) ==
    IF ~reply.ok THEN [some |-> FALSE, v |-> JNull]
    ELSE CompanyInfoOf(json_loads(CleanResponse(reply.text)))

\* pydantic validation of the optional fields of CompanyInfo
ValidEnum(v, values) == v.t = "null" \/ (v.t = "str" /\ Len(v.s) = 1 /\ v.s[1] \in values)
ValidFloat(v)  == v.t \in {"num", "null"} \/ (v.t = "str" /\ Len(v.s) = 1 /\ v.s[1] \in NumberTokens)
ValidOptStr(v) == v.t \in {"str", "null"}

CompanyInfoValid(d) ==
    /\ ValidEnum(DictGet(d, K("industry")), IndustryType)
    /\ ValidEnum(DictGet(d, K("stage")), CompanyStage)
    /\ ValidFloat(DictGet(d, K("revenue")))
    /\ ValidFloat(DictGet(d, K("growth_rate")))
    /\ ValidOptStr(DictGet(d, K("location")))

NoCompany == [present |-> FALSE, name |-> <<>>, industry |-> <<>>, stage |-> <<>>]

\* the company step keeping whatever the reply held
CompanyOfUnchecked(company_info) ==
    [present  |-> TRUE,
     name     |-> DictGet(company_info.v, K("name")).s,
     industry |-> DictGet(company_info.v, K("industry")).s,
     stage    |-> DictGet(company_info.v, K("stage")).s]

\* process, the company step on the extracted dict: the record's company_info
CompanyOf(company_info) ==
    IF company_info.some /\ DictGet(company_info.v, K("name")).s # <<>>
       /\ CompanyInfoValid(company_info.v)
    THEN [present  |-> TRUE,
          name     |-> DictGet(company_info.v, K("name")).s,
          industry |-> DictGet(company_info.v, K("industry")).s,
          stage    |-> DictGet(company_info.v, K("stage")).s]
    ELSE NoCompany

ProcessCompany(reply) == CompanyOf(_extract_company_info(reply))

\* the loop keeping the entries that are objects with a string name
RECURSIVE ValidParticipants(_)
ValidParticipants(ps) ==
    IF ps = <<>> THEN <<>>
    ELSE (IF ps[1].t = "obj" /\ DictGet(ps[1], K("name")).t = "str" THEN <<ps[1]>> ELSE <<>>)
         \o ValidParticipants(Tail(ps))

HasKey(d, key) == \E i \in 1..Len(d.keys) : d.keys[i] = key

\* _extract_participants, after json.loads: the list of valid entries
ParticipantsInfoOf(parsed) ==
    IF ~parsed.ok THEN <<>>
    ELSE IF parsed.v.t # "obj" THEN <<>>
    ELSE IF ~HasKey(parsed.v, K("participants")) THEN <<>>
    ELSE IF DictGet(parsed.v, K("participants")).t # "list" THEN <<>>
    ELSE ValidParticipants(DictGet(parsed.v, K("participants")).items)

_extract_participants(reply) ==
    IF ~reply.ok THEN <<>>
    ELSE ParticipantsInfoOf(json_loads(CleanResponse(reply.text)))

\* pydantic validation of Participant(**p)
ParticipantValid(p) ==
    /\ ValidOptStr(DictGet(p, K("role")))
    /\ ValidOptStr(DictGet(p, K("company")))
    /\ (HasKey(p, K("key_points")) =>
          /\ DictGet(p, K("key_points")).t = "list"
          /\ \A i \in 1..Len(DictGet(p, K("key_points")).items) :
                 DictGet(p, K("key_points")).items[i].t = "str")

\* process, the participants step on the extracted list: the record's participants
ParticipantsOf(participants_info) ==
    IF participants_info # <<>>
       /\ \A i \in 1..Len(participants_info) : ParticipantValid(participants_info[i])
    THEN [i \in 1..Len(participants_info) |->
             [name |-> DictGet(participants_info[i], K("name")).s,
              role |-> DictGet(participants_info[i], K("role")).s]]
    ELSE <<>>

ProcessParticipants(reply) == ParticipantsOf(_extract_participants(reply))

(***************************************************************************)
(* Notification renderers                                                  *)
(***************************************************************************)
RECURSIVE BulletList(_)
BulletList(items) ==
    IF items = <<>> THEN <<>>
    ELSE <<BUL, SP>> \o items[1]
         \o (IF Len(items) > 1 THEN <<NL>> \o BulletList(Tail(items)) ELSE <<>>)

RECURSIVE ParticipantLines(_)
ParticipantLines(ps) ==
    IF ps = <<>> THEN <<>>
    ELSE <<BUL, SP>> \o ps[1].name
         \o (IF ps[1].role # <<>> THEN <<SP, "(">> \o ps[1].role \o <<")">> ELSE <<>>)
         \o (IF Len(ps) > 1 THEN <<NL>> \o ParticipantLines(Tail(ps)) ELSE <<>>)

\* SlackOutputHandler.send: the blocks of the initial notification of a record
SendBlocks(state) ==
    <<Header(<<"Meeting Summary">>),
      Section(SummaryLabel \o <<NL>> \o state.summary)>>
    \o (IF state.key_points # <<>>
        THEN <<Section(KeyPointsLabel \o <<NL>> \o BulletList(state.key_points))>>
        ELSE <<>>)
    \o (IF state.company_info.present
        THEN <<Section(CompanyLabel \o <<SP>> \o state.company_info.name \o <<NL>>
                 \o (IF state.company_info.industry # <<>>
                     THEN <<STAR, "Industry:", STAR, SP>> \o state.company_info.industry \o <<NL>>
                     ELSE <<>>)
                 \o (IF state.company_info.stage # <<>>
                     THEN <<STAR, "Stage:", STAR, SP>> \o state.company_info.stage \o <<NL>>
                     ELSE <<>>))>>
        ELSE <<>>)
    \o (IF state.participants # <<>>
        THEN <<Section(<<STAR, "Participants:", STAR, NL>> \o ParticipantLines(state.participants))>>
        ELSE <<>>)

DecisionActionIds ==
    <<"urgent_action", "fund_not_urgent_action", "future_fund_action", "not_interested_action">>

DecisionActionIdSet == {DecisionActionIds[k] : k \in 1..Len(DecisionActionIds)}

\* SlackInteractionHandler.handle_interaction: the blocks of the meeting analysis
FollowupBlocks(meeting_info, meeting_notes) ==
    <<Header(<<"Meeting Analysis Required">>),
      Section(<<STAR, "Executive Summary", STAR, NL>> \o meeting_notes.summary),
      Section(<<STAR, "Company Details", STAR, NL, BUL, SP, "Company:", SP>> \o meeting_info.company
              \o <<NL, BUL, SP, "Participants:", SP>> \o meeting_info.participants)>>
    \o (IF meeting_notes.action_items # <<>>
        THEN <<Section(<<STAR, "Proposed Next Steps", STAR, NL>> \o BulletList(meeting_notes.action_items))>>
        ELSE <<>>)
    \o <<Section(<<"View Full Transcript">>),
         Divider,
         Context(<<"Decision:", SP, "Pending">>),
         Divider,
         Actions(DecisionActionIds)>>

\* the blocks of the error message posted by TranscriptionBot.handle_slack_event
ErrorBlocks(error) == <<Section(<<"Error processing transcription:", NL>> \o error)>>

(***************************************************************************)
(* Decision router: what differs between the four handlers                 *)
(***************************************************************************)
\* AgentWorkflow.initialize: action_id -> handler
action_handlers ==
    [a \in {"urgent_action", "fund_not_urgent_action", "future_fund_action", "not_interested_action"} |->
        CASE a = "urgent_action"          -> "_handle_urgent_action"
          [] a = "fund_not_urgent_action" -> "_handle_fund_not_urgent_action"
          [] a = "future_fund_action"     -> "_handle_future_fund_action"
          [] a = "not_interested_action"  -> "_handle_not_interested_action"]

\* the DecisionType each handler passes to get_template_for_decision
HandlerDecisionType(handler) ==
    CASE handler = "_handle_urgent_action"          -> "FOLLOW_UP"
      [] handler = "_handle_fund_not_urgent_action" -> "FUND_X"
      [] handler = "_handle_future_fund_action"     -> "FUTURE_FUND"
      [] handler = "_handle_not_interested_action"  -> "NO_ACTION"

\* a template choice that ignores the decision
AlwaysUrgentTemplate(decision_type) == "urgent_follow_up"

\* EmailTemplate.get_template_for_decision
get_template_for_decision(decision_type) ==
    CASE decision_type = "FUND_X"      -> "fund_not_urgent"
      [] decision_type = "FOLLOW_UP"   -> "urgent_follow_up"
      [] decision_type = "FUTURE_FUND" -> "future_fund"
      [] decision_type = "NO_ACTION"   -> "no_action"

\* the subject line each handler gives its email
EmailSubjectPrefix(handler) ==
    CASE handler = "_handle_urgent_action"          -> "[TEST] Urgent Follow-Up:"
      [] handler = "_handle_fund_not_urgent_action" -> "[TEST] Fund Follow-Up:"
      [] handler = "_handle_future_fund_action"     -> "[TEST] Future Fund Opportunity:"
      [] handler = "_handle_not_interested_action"  -> "[TEST] Investment Review:"

\* the outcome named on the decision line
DecisionText(handler) ==
    CASE handler = "_handle_urgent_action"          -> "Urgent Action"
      [] handler = "_handle_fund_not_urgent_action" -> "Fund (Not Urgent)"
      [] handler = "_handle_future_fund_action"     -> "Future Fund"
      [] handler = "_handle_not_interested_action"  -> "Not Interested"

\* the subject each handler gives the CRM interaction
DealSubjectPrefix(handler) ==
    CASE handler = "_handle_urgent_action"          -> "Urgent Follow-Up:"
      [] handler = "_handle_fund_not_urgent_action" -> "Fund Follow-Up:"
      [] handler = "_handle_future_fund_action"     -> "Future Fund:"
      [] handler = "_handle_not_interested_action"  -> "Not Interested:"

\* the decision named in the notes of the CRM interaction
DealDecisionText(handler) ==
    CASE handler = "_handle_urgent_action"          -> "Urgent Follow-Up"
      [] handler = "_handle_fund_not_urgent_action" -> "Fund (Not Urgent)"
      [] handler = "_handle_future_fund_action"     -> "Future Fund"
      [] handler = "_handle_not_interested_action"  -> "Not Interested"

TEST_EMAIL == "yvoderooij@gmail.com"

\* the email a handler builds from the extracted state
EmailOf(handler, state_data) ==
    [to           |-> TEST_EMAIL,
     template     |-> get_template_for_decision(HandlerDecisionType(handler)),
     subject      |-> <<EmailSubjectPrefix(handler), SP>>
                      \o Strip(Replace(Remove(state_data.company_name, STAR), NL, SP)),
     company_name |-> state_data.company_name,
     summary      |-> state_data.summary,
     key_points   |-> state_data.key_points,
     next_steps   |-> IF handler = "_handle_not_interested_action"
                      THEN <<>> ELSE state_data.next_steps]

RECURSIVE KeepContent(_)
KeepContent(blocks) ==
    IF blocks = <<>> THEN <<>>
    ELSE (IF blocks[1].type # "actions" /\ blocks[1].type # "divider" THEN <<blocks[1]>> ELSE <<>>)
         \o KeepContent(Tail(blocks))

\* the re-rendered notification a handler sends to update_message
UpdateBlocks(handler, blocks, email_client) ==
    KeepContent(blocks)
    \o <<Section(<<"(check)", SP, STAR, "Decision:", SP, DecisionText(handler), STAR>>
                 \o (IF email_client THEN <<NL, "Test email sent to", SP, TEST_EMAIL>> ELSE <<>>)),
         Divider,
         Actions(<<"processed_action">>)>>

\* the deal_data a handler passes to create_deal
DealData(handler, state_data) ==
    [Subject    |-> <<DealSubjectPrefix(handler), SP>> \o state_data.company_name,
     Decision   |-> DealDecisionText(handler),
     summary    |-> state_data.summary,
     key_points |-> state_data.key_points,
     next_steps |-> IF handler = "_handle_not_interested_action"
                    THEN <<>> ELSE state_data.next_steps]

(***************************************************************************)
(* The running bot                                                         *)
(***************************************************************************)
VARIABLES
    tasks,              \* one entry per inbound socket event: the run of its listeners
    chat,               \* the messages posted to Slack; a message's ts is its index
    emails,             \* the emails handed to the transport
    deals,              \* the interactions inserted in the CRM
    updates,            \* the chat.update calls that succeeded
    log,                \* the errors and warnings logged
    returns,            \* the returns of process_transcript
    message_cache,      \* SlackOutputHandler.message_cache
    processed_messages, \* SlackInteractionHandler.processed_messages
    email_client,       \* AgentWorkflow.email_client is set
    enable_dealcloud,   \* AppConfig.enable_dealcloud
    krisp_browser,      \* KrispClient.browser_context: "none", "open", "closed"
    now,                \* the clock ProcessingState reads for transcript_id
    faults,             \* the failures the outside world has answered with so far
    px,                 \* a run of TranscriptionAgent.process on its own
    rt,                 \* a render / extract / route run on its own
    bot                 \* the process: its phase and the credentials its environment holds

vars == <<tasks, chat, emails, deals, updates, log, returns, message_cache,
          processed_messages, email_client, enable_dealcloud, krisp_browser, now,
          faults, px, rt, bot>>

botvars == <<tasks, chat, emails, deals, updates, log, returns, message_cache,
             processed_messages, email_client, enable_dealcloud, krisp_browser, now, faults, bot>>

\* bounds of the model: the inbound socket events of a run, the messages that
\* appear in the source channel, the events whose listeners are running at
\* one time, and the failures of outside services
MaxEvents == 3
MaxMessages == 1
MaxInFlight == 1
MaxFaults == 1

FOLLOW_UP_CHANNEL == "follow_up_channel"
SOURCE_CHANNEL    == "source_channel"

\* the listeners in the order the program registers them:
\* SlackClient.connect, AgentWorkflow.initialize, TranscriptionBot.start
socket_mode_request_listeners ==
    <<"_handle_all_events", "handle_interaction", "handle_slack_event">>

\* SlackClient._handle_all_events: the handlers it awaits, in order
RECURSIVE OtherListeners(_)
OtherListeners(ls) ==
    IF ls = <<>> THEN <<>>
    ELSE (IF ls[1] # "_handle_all_events" THEN <<ls[1]>> ELSE <<>>) \o OtherListeners(Tail(ls))

_handle_all_events == OtherListeners(socket_mode_request_listeners)

\* the socket client awaits every registered listener for each request, in order
RECURSIVE RunListeners(_)
RunListeners(ls) ==
    IF ls = <<>> THEN <<>>
    ELSE (IF ls[1] = "_handle_all_events" THEN _handle_all_events ELSE <<ls[1]>>)
         \o RunListeners(Tail(ls))

run_message_listeners == RunListeners(socket_mode_request_listeners)

NoRecord ==
    [transcript_id |-> 0, summary |-> <<>>, key_points |-> <<>>,
     company_info |-> NoCompany, participants |-> <<>>, decision |-> "None"]

NoNotes == [summary |-> <<>>, action_items |-> <<>>]

NoLocals ==
    [state_data |-> EmptyStateData, handler |-> "", state |-> NoRecord,
     meeting_notes |-> NoNotes, error |-> <<>>, usable |-> FALSE]

\* an inbound message event of the source channel
MessageEvent(src, krisp, link, subtype, blank) ==
    [kind |-> "message", src |-> src, krisp |-> krisp, link |-> link, subtype |-> subtype,
     blank |-> blank, action_id |-> "", more |-> <<>>, channel |-> SOURCE_CHANNEL, ts |-> 0,
     blocks |-> <<>>]

\* an inbound block_actions event: the action and the snapshot of the message
\* (action_id is the id of the first entry of the payload's actions list, more
\* the ids of the entries after it)
ActionEvent(action_id, ts, blocks) ==
    [kind |-> "action", src |-> 0, krisp |-> FALSE, link |-> FALSE, subtype |-> "",
     blank |-> FALSE, action_id |-> action_id, more |-> <<>>, channel |-> FOLLOW_UP_CHANNEL,
     ts |-> ts, blocks |-> blocks]

\* a block_actions event whose actions list has more than one entry
ActionsEvent(actions, ts, blocks) ==
    [ActionEvent(actions[1], ts, blocks) EXCEPT !.more = Tail(actions)]

\* a dispatch that looks through the actions list for an id with a handler
FirstRegistered(ev) ==
    LET ids == <<ev.action_id>> \o ev.more
        reg == {k \in 1..Len(ids) : ids[k] \in DecisionActionIdSet}
    IN  IF reg = {} THEN ev.action_id
        ELSE ids[CHOOSE k \in reg : \A j \in reg : k <= j]

\* handle_interaction: the action id it dispatches on, actions[0]['action_id']
Dispatched(ev) == ev.action_id

Running(i)  == i \in 1..Len(tasks) /\ tasks[i].ci <= Len(run_message_listeners)
Callee(i)   == run_message_listeners[tasks[i].ci]

\* the calls that do not give the event loop back while they wait: send_email
\* runs smtplib and create_deal runs the DealCloud SDK, both synchronous, inside
\* a coroutine that awaits nothing that suspends
BlockingCalls == {"email", "crm"}

\* no other task holds the event loop inside a blocking call
LoopFree(i) ==
    \A j \in 1..Len(tasks) : (j # i /\ Running(j)) => tasks[j].pc \notin BlockingCalls

\* task i is at pc and the event loop can run it
At(i, pc)   == Running(i) /\ tasks[i].pc = pc /\ LoopFree(i)

\* a call that returns without suspending and without an effect:
\* handle_interaction for a message it has processed or that is not a Krisp
\* announcement with a notes link, handle_slack_event for anything but a
\* plain message
ReturnsAtOnce(t, processed) ==
    \/ /\ run_message_listeners[t.ci] = "handle_interaction"
       /\ t.ev.kind = "message"
       /\ t.ev.src \in processed \/ ~t.ev.krisp \/ ~t.ev.link
    \/ /\ run_message_listeners[t.ci] = "handle_slack_event"
       /\ t.ev.kind # "message" \/ t.ev.subtype # ""

\* the listeners run back to back up to the next call that suspends
RECURSIVE Advance(_, _)
Advance(t, processed) ==
    IF t.ci <= Len(run_message_listeners) /\ ReturnsAtOnce(t, processed)
    THEN Advance([t EXCEPT !.ci = @ + 1], processed)
    ELSE t

\* the task the socket client creates for an inbound event; terminal notes
\* whether the event's notification showed a completed decision on arrival
NewTask(ev) ==
    [ev |-> ev, ci |-> 1, pc |-> "call", loc |-> NoLocals,
     terminal |-> (ev.kind = "action" /\ \E u \in updates : u.ts = ev.ts)]

\* the current handler returns (or its exception was caught and logged)
ReturnWith(i, processed) ==
    [tasks EXCEPT ![i] = Advance([tasks[i] EXCEPT !.ci = @ + 1, !.pc = "call", !.loc = NoLocals],
                                 processed)]
Return(i) == ReturnWith(i, processed_messages)
Goto(i, pc, loc) == [tasks EXCEPT ![i].pc = pc, ![i].loc = loc]

Logged(i, what) == log \cup {[eid |-> i, ci |-> tasks[i].ci, what |-> what]}

\* an exception leaves a decision handler: the callee logs what, the handler's
\* outer except logs and re-raises, handle_interaction logs (in place of its
\* "Handler completed") and returns
HandlerRaised(i, what) ==
    log \cup {[eid |-> i, ci |-> tasks[i].ci, what |-> w] :
                 w \in {what, "Error handling action", "Error handling interaction"}}

\* an outside service answers with a failure, or as asked
Fault   == faults < MaxFaults /\ faults' = faults + 1
NoFault == faults' = faults

InFlight == Cardinality({i \in 1..Len(tasks) : Running(i)})

(***************************************************************************)
(* Inputs of the bot                                                       *)
(***************************************************************************)
Obj(members) == <<LBRACE>> \o members \o <<RBRACE>>
Str(text)    == <<QUOTE>> \o text \o <<QUOTE>>
Member(key, value) == Str(K(key)) \o <<COLON, SP>> \o value
List(value)  == <<LBRACK>> \o value \o <<RBRACK>>

GoodBasic ==
    Obj(Member("summary", Str(<<"Acme", SP, "raised", SP, "seed">>)) \o <<COMMA, SP>>
        \o Member("key_points", List(Str(<<"growing">>) \o <<COMMA, SP>> \o Str(<<"seed", SP, "round">>))))

BlankSummaryBasic ==
    Obj(Member("summary", Str(<<SP>>)) \o <<COMMA, SP>>
        \o Member("key_points", List(Str(<<"growing">>))))

GoodCompany ==
    Obj(Member("name", Str(<<"Acme", SP, "Corp">>)) \o <<COMMA, SP>>
        \o Member("industry", Str(<<"saas">>)) \o <<COMMA, SP>>
        \o Member("stage", <<NULL>>))

GoodParticipants ==
    Obj(Member("participants",
               List(Obj(Member("name", Str(<<"John">>)) \o <<COMMA, SP>>
                        \o Member("role", Str(<<"CEO">>))))))

\* the replies the text-generation service gives the running bot
BotBasicReplies       == {LLMText(GoodBasic), LLMText(BlankSummaryBasic), LLMError}
BotCompanyReplies     == {LLMText(GoodCompany), LLMError}
BotParticipantReplies == {LLMText(GoodParticipants)}

\* what KrispClient.get_meeting_notes scrapes from a meeting page
MeetingNotes ==
    {[summary |-> <<"Acme", SP, "pitch">>, action_items |-> <<>>],
     [summary |-> <<"Acme", SP, "pitch">>, action_items |-> <<<<"send", SP, "deck">>>>]}

\* extract_meeting_info of a Krisp message
MeetingInfo == [company |-> <<"Acme", SP, "Corp">>, participants |-> <<"John">>]

SourceMessages == {tasks[j].ev.src : j \in {k \in 1..Len(tasks) : tasks[k].ev.kind = "message"}}

\* a message appears in the source channel (from Krisp or from anyone else)
Message(max_events, max_in_flight) ==
    /\ bot.phase = "running"
    /\ Len(tasks) < max_events /\ InFlight < max_in_flight
    /\ Cardinality(SourceMessages) < MaxMessages
    /\ \E shape \in {<<FALSE, FALSE, FALSE>>, <<FALSE, FALSE, TRUE>>,
                     <<TRUE, TRUE, FALSE>>, <<TRUE, FALSE, FALSE>>} :
          tasks' = Append(tasks, NewTask(MessageEvent(Cardinality(SourceMessages) + 1,
                                                      shape[1], shape[2], "", shape[3])))
    /\ UNCHANGED <<chat, emails, deals, updates, log, returns, message_cache,
                   processed_messages, email_client, enable_dealcloud, krisp_browser, now, faults, px, rt, bot>>

DeliverMessage == Message(MaxEvents, MaxInFlight)

\* Slack reports an edit (an unfurl) of a Krisp message of the source channel
MessageChanged(max_events, max_in_flight) ==
    /\ Len(tasks) < max_events /\ InFlight < max_in_flight
    /\ \E j \in 1..Len(tasks) :
          /\ tasks[j].ev.kind = "message"
          /\ tasks[j].ev.krisp /\ tasks[j].ev.link
          /\ tasks' = Append(tasks, NewTask([tasks[j].ev EXCEPT !.subtype = "message_changed"]))
    /\ UNCHANGED <<chat, emails, deals, updates, log, returns, message_cache,
                   processed_messages, email_client, enable_dealcloud, krisp_browser, now, faults, px, rt, bot>>

DeliverMessageChanged == MessageChanged(MaxEvents, MaxInFlight)

\* the action ids of the controls a message shows
ControlsOf(blocks) ==
    UNION {{blocks[b].elements[e] : e \in 1..Len(blocks[b].elements)} :
              b \in {c \in 1..Len(blocks) : blocks[c].type = "actions"}}

\* an operator presses a control of a message as it is shown now
Press(max_events, max_in_flight) ==
    /\ Len(tasks) < max_events /\ InFlight < max_in_flight
    /\ \E ts \in 1..Len(chat) : \E a \in ControlsOf(chat[ts].blocks) :
          tasks' = Append(tasks, NewTask(ActionEvent(a, ts, chat[ts].blocks)))
    /\ UNCHANGED <<chat, emails, deals, updates, log, returns, message_cache,
                   processed_messages, email_client, enable_dealcloud, krisp_browser, now, faults, px, rt, bot>>

ClickWithin(max_events) == Press(max_events, MaxInFlight)

Click == ClickWithin(MaxEvents)

\* the platform delivers an action event a second time (retry, duplicate delivery)
Redeliver ==
    /\ Len(tasks) < MaxEvents /\ InFlight < MaxInFlight
    /\ \E j \in 1..Len(tasks) :
          /\ tasks[j].ev.kind = "action"
          /\ tasks' = Append(tasks, NewTask(tasks[j].ev))
    /\ UNCHANGED <<chat, emails, deals, updates, log, returns, message_cache,
                   processed_messages, email_client, enable_dealcloud, krisp_browser, now, faults, px, rt, bot>>

\* an operator presses another control of a message as a client still shows
\* it: the snapshot is the one an earlier action event for the message carried
StaleClick ==
    /\ Len(tasks) < MaxEvents /\ InFlight < MaxInFlight
    /\ \E j \in 1..Len(tasks) : \E a \in ControlsOf(tasks[j].ev.blocks) :
          /\ tasks[j].ev.kind = "action"
          /\ a # tasks[j].ev.action_id
          /\ tasks' = Append(tasks, NewTask(ActionEvent(a, tasks[j].ev.ts, tasks[j].ev.blocks)))
    /\ UNCHANGED <<chat, emails, deals, updates, log, returns, message_cache,
                   processed_messages, email_client, enable_dealcloud, krisp_browser, now, faults, px, rt, bot>>

(***************************************************************************)
(* SlackInteractionHandler.handle_interaction                              *)
(***************************************************************************)
\* the task of a message event starts (or resumes) with a call of
\* handle_interaction that leaves the message alone
HI_Ignore(i) ==
    /\ At(i, "call") /\ Callee(i) = "handle_interaction"
    /\ tasks[i].ev.kind = "message"
    /\ ReturnsAtOnce(tasks[i], processed_messages)
    /\ tasks' = Return(i)
    /\ UNCHANGED <<chat, emails, deals, updates, log, returns, message_cache,
                   processed_messages, email_client, enable_dealcloud, krisp_browser, now, faults, px, rt, bot>>

\* a Krisp announcement with a notes link: await get_meeting_notes
HI_FetchNotes(i) ==
    /\ At(i, "call") /\ Callee(i) = "handle_interaction"
    /\ tasks[i].ev.kind = "message"
    /\ tasks[i].ev.src \notin processed_messages
    /\ tasks[i].ev.krisp /\ tasks[i].ev.link
    /\ tasks' = Goto(i, "notes", [NoLocals EXCEPT !.usable = (krisp_browser # "closed")])
    /\ UNCHANGED <<chat, emails, deals, updates, log, returns, message_cache,
                   processed_messages, email_client, enable_dealcloud, krisp_browser, now, faults, px, rt, bot>>

\* get_meeting_notes returns the scraped notes, or None after logging; its
\* finally clause closes the browser context without forgetting it
NotesReturn(i) ==
    /\ At(i, "notes")
    /\ \/ /\ tasks[i].loc.usable
          /\ \E notes \in MeetingNotes :
                tasks' = Goto(i, "post_analysis", [tasks[i].loc EXCEPT !.meeting_notes = notes])
          /\ krisp_browser' = "closed"
          /\ log' = log
          /\ NoFault
       \/ /\ tasks' = Return(i)
          /\ krisp_browser' \in (IF krisp_browser = "none" THEN {"none", "closed"} ELSE {"closed"})
          /\ log' = Logged(i, "Failed to fetch meeting notes")
          /\ IF tasks[i].loc.usable THEN Fault ELSE NoFault
    /\ UNCHANGED <<chat, emails, deals, updates, returns, message_cache,
                   processed_messages, email_client, enable_dealcloud, now, px, rt, bot>>

\* chat_postMessage of the meeting analysis returns or raises
PostAnalysisReturn(i) ==
    /\ At(i, "post_analysis")
    /\ \/ /\ chat' = Append(chat, [channel |-> FOLLOW_UP_CHANNEL,
                                   blocks  |-> FollowupBlocks(MeetingInfo, tasks[i].loc.meeting_notes),
                                   kind    |-> "analysis",
                                   eid     |-> i,
                                   ci      |-> tasks[i].ci,
                                   src     |-> tasks[i].ev.src])
          /\ processed_messages' = processed_messages \cup {tasks[i].ev.src}
          /\ tasks' = ReturnWith(i, processed_messages')
          /\ log' = log
          /\ NoFault
       \/ /\ log' = Logged(i, "Error processing meeting notes")
          /\ Fault
          /\ tasks' = Return(i)
          /\ UNCHANGED <<chat, processed_messages>>
    /\ UNCHANGED <<emails, deals, updates, returns, message_cache,
                   email_client, enable_dealcloud, krisp_browser, now, px, rt, bot>>

\* a block_actions event whose first action has no registered handler
HI_NoHandler(i) ==
    /\ At(i, "call") /\ Callee(i) = "handle_interaction"
    /\ tasks[i].ev.kind = "action"
    /\ Dispatched(tasks[i].ev) \notin DOMAIN action_handlers
    /\ tasks' = Return(i)
    /\ log' = Logged(i, "No handler found for action")
    /\ UNCHANGED <<chat, emails, deals, updates, returns, message_cache,
                   processed_messages, email_client, enable_dealcloud, krisp_browser, now, faults, px, rt, bot>>

(***************************************************************************)
(* AgentWorkflow._handle_*_action                                          *)
(***************************************************************************)
\* the handler of the action id starts: it reads the state out of the
\* snapshot, sets up the email client and awaits send_email
HandleAction(i) ==
    /\ At(i, "call") /\ Callee(i) = "handle_interaction"
    /\ tasks[i].ev.kind = "action"
    /\ Dispatched(tasks[i].ev) \in DOMAIN action_handlers
    /\ tasks' = Goto(i, "email",
                     [NoLocals EXCEPT !.handler = action_handlers[Dispatched(tasks[i].ev)],
                                      !.state_data = _extract_state_from_blocks(tasks[i].ev.blocks)])
    /\ email_client' = TRUE
    /\ UNCHANGED <<chat, emails, deals, updates, log, returns, message_cache,
                   processed_messages, enable_dealcloud, krisp_browser, now, faults, px, rt, bot>>

\* a handler that logs the failure of send_email and goes on to the update
EmailReturnSwallowed(i) ==
    /\ At(i, "email")
    /\ \/ /\ emails' = emails \cup {[eid |-> i, ci |-> tasks[i].ci, ts |-> tasks[i].ev.ts,
                                     msg |-> EmailOf(tasks[i].loc.handler, tasks[i].loc.state_data)]}
          /\ log' = log
          /\ NoFault
       \/ /\ log' = Logged(i, "Failed to send email")
          /\ Fault
          /\ emails' = emails
    /\ tasks' = Goto(i, "update", tasks[i].loc)
    /\ UNCHANGED <<chat, deals, updates, returns, message_cache,
                   processed_messages, email_client, enable_dealcloud, krisp_browser, now, px, rt, bot>>

\* send_email returns, or raises after its retries: the exception leaves the
\* handler through its outer except and is logged by handle_interaction
EmailReturn(i) ==
    /\ At(i, "email")
    /\ \/ /\ emails' = emails \cup {[eid |-> i, ci |-> tasks[i].ci, ts |-> tasks[i].ev.ts,
                                     msg |-> EmailOf(tasks[i].loc.handler, tasks[i].loc.state_data)]}
          /\ tasks' = Goto(i, "update", tasks[i].loc)
          /\ log' = log
          /\ NoFault
       \/ /\ log' = HandlerRaised(i, "Failed to send email")
          /\ Fault
          /\ tasks' = Return(i)
          /\ emails' = emails
    /\ UNCHANGED <<chat, deals, updates, returns, message_cache,
                   processed_messages, email_client, enable_dealcloud, krisp_browser, now, px, rt, bot>>

\* a handler that logs the failure of update_message and goes on to the CRM
UpdateReturnSwallowed(i) ==
    /\ At(i, "update")
    /\ \/ /\ chat' = [chat EXCEPT ![tasks[i].ev.ts].blocks =
                         UpdateBlocks(tasks[i].loc.handler, tasks[i].ev.blocks, email_client)]
          /\ updates' = updates \cup {[eid |-> i, ci |-> tasks[i].ci, ts |-> tasks[i].ev.ts,
                                       channel |-> tasks[i].ev.channel,
                                       blocks |-> UpdateBlocks(tasks[i].loc.handler,
                                                               tasks[i].ev.blocks, email_client),
                                       decision |-> DecisionText(tasks[i].loc.handler)]}
          /\ log' = IF enable_dealcloud THEN log ELSE Logged(i, "Handler completed")
          /\ NoFault
       \/ /\ log' = Logged(i, "Failed to update message")
          /\ Fault
          /\ UNCHANGED <<chat, updates>>
    /\ tasks' = IF enable_dealcloud THEN Goto(i, "crm", tasks[i].loc) ELSE Return(i)
    /\ UNCHANGED <<emails, deals, returns, message_cache,
                   processed_messages, email_client, enable_dealcloud, krisp_browser, now, px, rt, bot>>

\* update_message returns or raises
UpdateReturn(i) ==
    /\ At(i, "update")
    /\ \/ /\ chat' = [chat EXCEPT ![tasks[i].ev.ts].blocks =
                         UpdateBlocks(tasks[i].loc.handler, tasks[i].ev.blocks, email_client)]
          /\ updates' = updates \cup {[eid |-> i, ci |-> tasks[i].ci, ts |-> tasks[i].ev.ts,
                                       channel |-> tasks[i].ev.channel,
                                       blocks |-> UpdateBlocks(tasks[i].loc.handler,
                                                               tasks[i].ev.blocks, email_client),
                                       decision |-> DecisionText(tasks[i].loc.handler)]}
          /\ tasks' = IF enable_dealcloud THEN Goto(i, "crm", tasks[i].loc) ELSE Return(i)
          /\ log' = IF enable_dealcloud THEN log ELSE Logged(i, "Handler completed")
          /\ NoFault
       \/ /\ log' = HandlerRaised(i, "Failed to update message")
          /\ Fault
          /\ tasks' = Return(i)
          /\ UNCHANGED <<chat, updates>>
    /\ UNCHANGED <<emails, deals, returns, message_cache,
                   processed_messages, email_client, enable_dealcloud, krisp_browser, now, px, rt, bot>>

\* DealCloudClient.initialize finds its site and client credentials
DealCloudCredentials == "DC_SDK_CLIENT_SECRET" \in bot.env

\* create_deal: the Type it falls back to when deal_data carries none
INTERACTION_TYPE == 1947215

\* what read_data("Company") answers: the companies' EntryIds
CompanyLookups == {<<>>, <<101, 102>>, <<102, 101>>}

\* create_deal: the interaction handed to insert_data; the handlers' deal_data
\* carries a Subject and Notes and no Type
InteractionOf(deal_data, companies) ==
    [Subject   |-> deal_data.Subject,
     Notes     |-> [Decision   |-> deal_data.Decision,
                    summary    |-> deal_data.summary,
                    key_points |-> deal_data.key_points,
                    next_steps |-> deal_data.next_steps],
     Companies |-> companies[1],
     Type      |-> INTERACTION_TYPE]

\* a handler whose inner except logs the failure of create_deal and goes on
CreateDealSwallowed(i, what) ==
    Logged(i, "Failed to create deal in DealCloud")
        \cup {[eid |-> i, ci |-> tasks[i].ci, what |-> w] : w \in {what, "Handler completed"}}

\* create_deal raised: it logs, the handler's inner except logs and re-raises
CreateDealRaised(i, what) ==
    HandlerRaised(i, "Failed to create deal in DealCloud")
        \cup {[eid |-> i, ci |-> tasks[i].ci, what |-> what]}

\* create_deal returns the inserted interaction or raises DealCloudError:
\* the SDK cannot be set up for want of credentials, the company lookup is
\* empty, or a lookup or the insert fails
CrmReturn(i) ==
    /\ At(i, "crm")
    /\ \E companies \in CompanyLookups :
          IF ~DealCloudCredentials
          THEN /\ log' = CreateDealRaised(i, "Failed to initialize DealCloud SDK")
               /\ NoFault
               /\ deals' = deals
          ELSE IF companies = <<>>
          THEN /\ log' = CreateDealRaised(i, "No companies found")
               /\ Fault
               /\ deals' = deals
          ELSE \/ /\ deals' = deals \cup
                              {[eid |-> i, ci |-> tasks[i].ci, ts |-> tasks[i].ev.ts,
                                data |-> DealData(tasks[i].loc.handler, tasks[i].loc.state_data),
                                lookup |-> companies,
                                interaction |->
                                    InteractionOf(DealData(tasks[i].loc.handler,
                                                           tasks[i].loc.state_data), companies)]}
                  /\ log' = Logged(i, "Handler completed")
                  /\ NoFault
               \/ /\ log' = CreateDealRaised(i, "Failed to create interaction")
                  /\ Fault
                  /\ deals' = deals
    /\ tasks' = Return(i)
    /\ UNCHANGED <<chat, emails, updates, returns, message_cache,
                   processed_messages, email_client, enable_dealcloud, krisp_browser, now, px, rt, bot>>

(***************************************************************************)
(* TranscriptionBot.handle_slack_event and AgentWorkflow.process_transcript*)
(***************************************************************************)
\* process_transcript creates the record (its id is the clock's reading) and
\* the transcription agent rejects a blank transcript or asks for the basics
HSE_Process(i) ==
    /\ At(i, "call") /\ Callee(i) = "handle_slack_event"
    /\ tasks[i].ev.kind = "message" /\ tasks[i].ev.subtype = ""
    /\ now' \in {now, now + 1}
    /\ IF tasks[i].ev.blank
       THEN /\ tasks' = Goto(i, "post_error",
                             [NoLocals EXCEPT !.error = <<"No transcript content provided">>])
            /\ log' = Logged(i, "Workflow processing failed")
       ELSE /\ tasks' = Goto(i, "llm_basic",
                             [NoLocals EXCEPT !.state = [NoRecord EXCEPT !.transcript_id = now']])
            /\ log' = log
    /\ UNCHANGED <<chat, emails, deals, updates, returns, message_cache,
                   processed_messages, email_client, enable_dealcloud, krisp_browser, faults, px, rt, bot>>

\* the mandatory step ends with the basics or with AgentProcessingError
BasicStep(i, basic) ==
    IF basic.ok
    THEN /\ tasks' = Goto(i, "llm_company",
                          [tasks[i].loc EXCEPT !.state.summary = basic.summary,
                                               !.state.key_points = basic.key_points])
         /\ log' = log
         /\ NoFault
    ELSE /\ tasks' = Goto(i, "post_error", [tasks[i].loc EXCEPT !.error = basic.error])
         /\ log' = Logged(i, "Workflow processing failed")
         /\ Fault

\* the reply to the summary / key points prompt arrives
BasicReturn(i) ==
    /\ At(i, "llm_basic")
    /\ \E reply \in BotBasicReplies : BasicStep(i, ProcessBasic(reply))
    /\ UNCHANGED <<chat, emails, deals, updates, returns, message_cache,
                   processed_messages, email_client, enable_dealcloud, krisp_browser, now, px, rt, bot>>

\* the company step never raises: the record gets the company or stays without
CompanyStep(i, company_info) ==
    /\ tasks' = Goto(i, "llm_participants", [tasks[i].loc EXCEPT !.state.company_info = company_info])
    /\ IF company_info.present THEN NoFault ELSE Fault

\* the reply to the company prompt arrives
CompanyReturn(i) ==
    /\ At(i, "llm_company")
    /\ \E reply \in BotCompanyReplies : CompanyStep(i, ProcessCompany(reply))
    /\ UNCHANGED <<chat, emails, deals, updates, log, returns, message_cache,
                   processed_messages, email_client, enable_dealcloud, krisp_browser, now, px, rt, bot>>

\* the reply to the participants prompt arrives; SlackOutputHandler.send
\* renders the record and awaits post_message
ParticipantsReturn(i) ==
    /\ At(i, "llm_participants")
    /\ \E reply \in BotParticipantReplies :
          tasks' = Goto(i, "post_summary",
                        [tasks[i].loc EXCEPT !.state.participants = ProcessParticipants(reply)])
    /\ UNCHANGED <<chat, emails, deals, updates, log, returns, message_cache,
                   processed_messages, email_client, enable_dealcloud, krisp_browser, now, faults, px, rt, bot>>

\* post_message of the notification returns or raises; send swallows the
\* failure and process_transcript returns the record either way
PostSummaryReturn(i) ==
    /\ At(i, "post_summary")
    /\ \/ /\ chat' = Append(chat, [channel |-> FOLLOW_UP_CHANNEL,
                                   blocks  |-> SendBlocks(tasks[i].loc.state),
                                   kind    |-> "summary",
                                   eid     |-> i,
                                   ci      |-> tasks[i].ci,
                                   src     |-> tasks[i].ev.src])
          /\ message_cache' =
                [k \in DOMAIN message_cache \cup {tasks[i].loc.state.transcript_id} |->
                    IF k = tasks[i].loc.state.transcript_id
                    THEN [channel |-> FOLLOW_UP_CHANNEL, ts |-> Len(chat) + 1]
                    ELSE message_cache[k]]
          /\ returns' = returns \cup {[eid |-> i, ci |-> tasks[i].ci, state |-> tasks[i].loc.state,
                                       ts |-> Len(chat) + 1]}
          /\ log' = log
          /\ NoFault
       \/ /\ log' = Logged(i, "Failed to send to Slack")
          /\ Fault
          /\ returns' = returns \cup {[eid |-> i, ci |-> tasks[i].ci, state |-> tasks[i].loc.state,
                                       ts |-> 0]}
          /\ UNCHANGED <<chat, message_cache>>
    /\ tasks' = Return(i)
    /\ UNCHANGED <<emails, deals, updates, processed_messages, email_client,
                   enable_dealcloud, krisp_browser, now, px, rt, bot>>

\* post_message of the error report returns or raises
PostErrorReturn(i) ==
    /\ At(i, "post_error")
    /\ \/ /\ chat' = Append(chat, [channel |-> FOLLOW_UP_CHANNEL,
                                   blocks  |-> ErrorBlocks(tasks[i].loc.error),
                                   kind    |-> "error",
                                   eid     |-> i,
                                   ci      |-> tasks[i].ci,
                                   src     |-> tasks[i].ev.src])
          /\ log' = log
          /\ NoFault
       \/ /\ log' = Logged(i, "Error handling Slack event")
          /\ Fault
          /\ chat' = chat
    /\ tasks' = Return(i)
    /\ UNCHANGED <<emails, deals, updates, returns, message_cache, processed_messages,
                   email_client, enable_dealcloud, krisp_browser, now, px, rt, bot>>

(***************************************************************************)
(* The bot as a whole                                                      *)
(***************************************************************************)
\* the credentials the environment may hold: the Slack tokens stand for what
\* the configuration and the connection need, the client secret for what
\* DealCloudClient.initialize reads
Credentials == {"SLACK_BOT_TOKEN", "DC_SDK_CLIENT_SECRET"}

\* TranscriptionBot() and start(): the configuration is validated, the
\* workflow is built and connects to Slack; a failure ends the process.  The
\* DealCloud client is only constructed
Start ==
    /\ bot.phase = "init"
    /\ bot' = [bot EXCEPT !.phase = IF "SLACK_BOT_TOKEN" \in bot.env THEN "running" ELSE "exited"]
    /\ UNCHANGED <<tasks, chat, emails, deals, updates, log, returns, message_cache,
                   processed_messages, email_client, enable_dealcloud, krisp_browser, now,
                   faults, px, rt>>

\* the process before TranscriptionBot() in an environment with every credential
Unstarted == [phase |-> "init", env |-> Credentials]

BotInit ==
    /\ tasks = <<>>
    /\ chat = <<>>
    /\ emails = {}
    /\ deals = {}
    /\ updates = {}
    /\ log = {}
    /\ returns = {}
    /\ message_cache = <<>>
    /\ processed_messages = {}
    /\ email_client = FALSE
    /\ enable_dealcloud \in BOOLEAN
    /\ krisp_browser = "none"
    /\ now = 1
    /\ faults = 0

Init ==
    /\ BotInit
    /\ bot \in {[phase |-> "init", env |-> e] : e \in SUBSET Credentials}
    /\ px = "idle"
    /\ rt = "idle"

Step(i) ==
    \/ HI_Ignore(i)
    \/ HI_FetchNotes(i)
    \/ NotesReturn(i)
    \/ PostAnalysisReturn(i)
    \/ HI_NoHandler(i)
    \/ HandleAction(i)
    \/ EmailReturn(i)
    \/ UpdateReturn(i)
    \/ CrmReturn(i)
    \/ HSE_Process(i)
    \/ BasicReturn(i)
    \/ CompanyReturn(i)
    \/ ParticipantsReturn(i)
    \/ PostSummaryReturn(i)
    \/ PostErrorReturn(i)

Next ==
    \/ Start
    \/ DeliverMessage
    \/ DeliverMessageChanged
    \/ Click
    \/ Redeliver
    \/ StaleClick
    \/ \E i \in 1..MaxEvents : Step(i)

Spec == Init /\ [][Next]_vars

(***************************************************************************)
(* The decision handlers on their own: the bot has handled one Krisp       *)
(* announcement without a failure (the analysis and the two summaries are  *)
(* posted) and from there only action events arrive.                       *)
(***************************************************************************)
\* the record process_transcript returned for the announcement
AnnouncedState ==
    [NoRecord EXCEPT !.transcript_id = 1,
                     !.summary = ProcessBasic(LLMText(GoodBasic)).summary,
                     !.key_points = ProcessBasic(LLMText(GoodBasic)).key_points,
                     !.company_info = ProcessCompany(LLMText(GoodCompany)),
                     !.participants = ProcessParticipants(LLMText(GoodParticipants))]

\* the summary handle_slack_event posted in its call c
AnnouncedSummary(c) ==
    [channel |-> FOLLOW_UP_CHANNEL, blocks |-> SendBlocks(AnnouncedState),
     kind |-> "summary", eid |-> 1, ci |-> c, src |-> 1]

InitDecide ==
    /\ tasks = <<[NewTask(MessageEvent(1, TRUE, TRUE, "", FALSE))
                     EXCEPT !.ci = Len(run_message_listeners) + 1]>>
    /\ \E notes \in MeetingNotes :
          chat = <<[channel |-> FOLLOW_UP_CHANNEL, blocks |-> FollowupBlocks(MeetingInfo, notes),
                    kind |-> "analysis", eid |-> 1, ci |-> 1, src |-> 1],
                   AnnouncedSummary(2), AnnouncedSummary(4)>>
    /\ emails = {}
    /\ deals = {}
    /\ updates = {}
    /\ log = {}
    /\ returns = {[eid |-> 1, ci |-> c, state |-> AnnouncedState, ts |-> c \div 2 + 1] : c \in {2, 4}}
    /\ message_cache = [k \in {1} |-> [channel |-> FOLLOW_UP_CHANNEL, ts |-> 3]]
    /\ processed_messages = {1}
    /\ email_client = FALSE
    /\ enable_dealcloud \in BOOLEAN
    /\ krisp_browser = "closed"
    /\ now = 1
    /\ faults = 0
    /\ px = "idle"
    /\ rt = "idle"
    /\ bot \in {[phase |-> "running", env |-> e] : e \in {c \in SUBSET Credentials : "SLACK_BOT_TOKEN" \in c}}

\* bound: the action events of a run of the decision handlers on their own
MaxDecisions == 1

NextDecide ==
    \/ ClickWithin(1 + MaxDecisions)
    \/ \E i \in 2..(1 + MaxDecisions) :
          \/ HandleAction(i)
          \/ EmailReturn(i)
          \/ UpdateReturn(i)
          \/ CrmReturn(i)

SpecDecide == InitDecide /\ [][NextDecide]_vars

\* the bot reaches the state the decision handlers are studied from
DecideStartReached ==
    /\ Len(tasks) = 1 /\ ~Running(1)
    /\ Len(chat) = 3 /\ chat[2] = AnnouncedSummary(2) /\ chat[3] = AnnouncedSummary(4)
    /\ chat[1].kind = "analysis" /\ chat[1].ci = 1
    /\ returns = {[eid |-> 1, ci |-> c, state |-> AnnouncedState, ts |-> c \div 2 + 1] : c \in {2, 4}}
    /\ message_cache = [k \in {1} |-> [channel |-> FOLLOW_UP_CHANNEL, ts |-> 3]]
    /\ processed_messages = {1} /\ ~email_client /\ krisp_browser = "closed"
    /\ now = 1 /\ faults = 0 /\ log = {} /\ emails = {} /\ deals = {} /\ updates = {}
    /\ tasks[1] = [NewTask(MessageEvent(1, TRUE, TRUE, "", FALSE))
                      EXCEPT !.ci = Len(run_message_listeners) + 1]

(***************************************************************************)
(* The event loop under two action events: from the same start, a second   *)
(* action event may arrive while the handler of the first is running.      *)
(***************************************************************************)
\* bound: the action events whose handlers run at one time
MaxLoopEvents == 2

NextLoop ==
    \/ Press(1 + MaxLoopEvents, MaxLoopEvents)
    \/ \E i \in 2..(1 + MaxLoopEvents) :
          \/ HI_NoHandler(i)
          \/ HandleAction(i)
          \/ EmailReturn(i)
          \/ UpdateReturn(i)
          \/ CrmReturn(i)

SpecLoop == InitDecide /\ [][NextLoop]_vars

(***************************************************************************)
(* The announcements under two message events: the running bot receives a  *)
(* message and the report of its edit, and the second event may arrive     *)
(* while the listeners of the first are suspended.                         *)
(***************************************************************************)
\* bound: the message events whose listeners run at one time
MaxAnnounced == 2

InitAnnounce ==
    /\ BotInit
    /\ bot = [phase |-> "running", env |-> Credentials]
    /\ px = "idle"
    /\ rt = "idle"

NextAnnounce ==
    \/ Message(MaxAnnounced, MaxAnnounced)
    \/ MessageChanged(MaxAnnounced, MaxAnnounced)
    \/ \E i \in 1..MaxAnnounced :
          \/ HI_Ignore(i)
          \/ HI_FetchNotes(i)
          \/ NotesReturn(i)
          \/ PostAnalysisReturn(i)
          \/ HSE_Process(i)
          \/ BasicReturn(i)
          \/ CompanyReturn(i)
          \/ ParticipantsReturn(i)
          \/ PostSummaryReturn(i)
          \/ PostErrorReturn(i)

SpecAnnounce == InitAnnounce /\ [][NextAnnounce]_vars

(***************************************************************************)
(* Action events with several actions: from the start of the decision      *)
(* handlers, events arrive one after the other whose actions list may      *)
(* carry a second entry.                                                   *)
(***************************************************************************)
\* bound: the action events of a run
MaxPresses == 2

\* the second entries tried: none, a decision, the Processed control
MoreActions == {<<>>, <<"urgent_action">>, <<"processed_action">>}

\* an operator's press arrives as an event with one or two actions
PressSeveral ==
    /\ Len(tasks) < 1 + MaxPresses /\ InFlight = 0
    /\ \E ts \in 1..Len(chat) : \E a \in ControlsOf(chat[ts].blocks) : \E more \in MoreActions :
          tasks' = Append(tasks, NewTask(ActionsEvent(<<a>> \o more, ts, chat[ts].blocks)))
    /\ UNCHANGED <<chat, emails, deals, updates, log, returns, message_cache,
                   processed_messages, email_client, enable_dealcloud, krisp_browser, now, faults, px, rt, bot>>

NextActions ==
    \/ PressSeveral
    \/ \E i \in 2..(1 + MaxPresses) :
          \/ HI_NoHandler(i)
          \/ HandleAction(i)
          \/ EmailReturn(i)
          \/ UpdateReturn(i)
          \/ CrmReturn(i)

SpecActions == InitDecide /\ [][NextActions]_vars

(***************************************************************************)
(* Properties of the running bot                                           *)
(***************************************************************************)
Done(i) == i \in 1..Len(tasks) /\ ~Running(i)

IsDecision(i) == tasks[i].ev.kind = "action" /\ tasks[i].ev.action_id \in DOMAIN action_handlers

EmailsOf(E)  == {e \in emails : e.eid \in E}
UpdatesOf(E) == {u \in updates : u.eid \in E}
DealsOf(E)   == {d \in deals : d.eid \in E}

\* the deliveries of the event that task i handles
Deliveries(i) == {j \in 1..Len(tasks) : tasks[j].ev = tasks[i].ev}

\* C1: in each of the four handlers, when sending the email fails the failure
\* is logged, the notification is still re-rendered (update_message is
\* called) and, with the CRM enabled, create_deal is still called.
C1_EmailFailureDoesNotBlock ==
    \A l \in log :
        l.what = "Failed to send email" =>
            /\ \/ \E u \in updates : u.eid = l.eid /\ u.ci = l.ci
               \/ \E m \in log : m.eid = l.eid /\ m.ci = l.ci /\ m.what = "Failed to update message"
            /\ enable_dealcloud =>
                  \/ \E d \in deals : d.eid = l.eid /\ d.ci = l.ci
                  \/ \E m \in log : m.eid = l.eid /\ m.ci = l.ci
                                    /\ m.what \in {"Failed to create deal in DealCloud",
                                                   "Failed to update message"}

\* C2: once a notification shows a completed decision, an action event that
\* arrives for it afterwards produces no email, no update and no CRM record.
C2_NoTransitionFromTerminal ==
    \A i \in 1..Len(tasks) :
        tasks[i].terminal => EmailsOf({i}) = {} /\ UpdatesOf({i}) = {} /\ DealsOf({i}) = {}

\* C3: when one decision event (with the pre-decision snapshot) is delivered
\* twice and nothing fails, the two deliveries send two emails and, with the
\* CRM enabled, create two CRM records.
C3_DuplicateDeliveryRunsTwice ==
    \A i \in 1..Len(tasks) :
        (/\ IsDecision(i)
         /\ tasks[i].ev.action_id \in ControlsOf(tasks[i].ev.blocks)
         /\ Cardinality(Deliveries(i)) = 2
         /\ \A j \in Deliveries(i) : Done(j)
         /\ faults = 0)
        => /\ Cardinality(EmailsOf(Deliveries(i))) = 2
           /\ enable_dealcloud => Cardinality(DealsOf(Deliveries(i))) = 2

\* C4: one decision event delivered once, with the listeners as the program
\* registers them and nothing failing, sends exactly one email, updates the
\* message exactly once and (CRM enabled) creates exactly one interaction.
C4_OneEventOneEffect ==
    \A i \in 1..Len(tasks) :
        (IsDecision(i) /\ Deliveries(i) = {i} /\ Done(i) /\ faults = 0)
        => /\ Cardinality(EmailsOf({i})) = 1
           /\ Cardinality(UpdatesOf({i})) = 1
           /\ enable_dealcloud => Cardinality(DealsOf({i})) = 1

\* C5: whenever process_transcript returns a record, the initial notification
\* of that record has been posted and carries the four decision controls.
C5_ReturnedMeansPostedWithControls ==
    \A r \in returns :
        /\ r.ts \in 1..Len(chat)
        /\ {DecisionActionIds[k] : k \in 1..Len(DecisionActionIds)} \subseteq ControlsOf(chat[r.ts].blocks)

\* C6: when the mandatory extraction step fails for a source message (and the
\* error post itself goes through), the follow-up channel holds an error
\* message with the exception text and no message with decision controls is
\* posted for that source message.
C6_FailureMeansErrorAndNoControls ==
    \A i \in 1..Len(tasks) : \A l \in log :
        (/\ l.eid = i /\ l.what = "Workflow processing failed"
         /\ tasks[i].ci > l.ci
         /\ ~\E m \in log : m.eid = i /\ m.ci = l.ci /\ m.what = "Error handling Slack event")
        => /\ \E ts \in 1..Len(chat) :
                 /\ chat[ts].kind = "error" /\ chat[ts].eid = i
                 /\ chat[ts].channel = FOLLOW_UP_CHANNEL
                 /\ Contains(chat[ts].blocks[1].text, <<"Failed to analyze transcript:">>)
                    \/ Contains(chat[ts].blocks[1].text, <<"No transcript content provided">>)
           /\ \A ts \in 1..Len(chat) :
                 chat[ts].src = tasks[i].ev.src =>
                    ControlsOf(chat[ts].blocks) \cap DOMAIN action_handlers = {}

\* the blocks of a message that carry text, in order
RECURSIVE TextBlocks(_)
TextBlocks(blocks) ==
    IF blocks = <<>> THEN <<>>
    ELSE (IF blocks[1].type \in {"header", "section", "context"} THEN <<blocks[1]>> ELSE <<>>)
         \o TextBlocks(Tail(blocks))

Handlers == {action_handlers[a] : a \in DOMAIN action_handlers}

\* the blocks of a message that name the outcome of handler h as its decision
DecisionLines(blocks, h) ==
    {k \in 1..Len(blocks) : Contains(blocks[k].text, <<"Decision:", SP, DecisionText(h)>>)}

\* the handlers whose outcome a message shows as its decision
ShownDecisions(blocks) == {h \in Handlers : DecisionLines(blocks, h) # {}}

\* the update of a decision as the operator is to find it: the snapshot's
\* controls gone, its text blocks kept in order, one decision line, and
\* Processed as the only and last control
Rerendered(u) ==
    LET ev == tasks[u.eid].ev
        h  == action_handlers[ev.action_id]
    IN  /\ u.ts = ev.ts /\ u.channel = ev.channel
        /\ u.ts \in 1..Len(chat) /\ chat[u.ts].channel = u.channel
        /\ ControlsOf(u.blocks) \cap ControlsOf(ev.blocks) = {}
        /\ Len(TextBlocks(ev.blocks)) <= Len(TextBlocks(u.blocks))
        /\ Take(TextBlocks(u.blocks), Len(TextBlocks(ev.blocks))) = TextBlocks(ev.blocks)
        /\ Cardinality(DecisionLines(u.blocks, h)) = 1
        /\ ShownDecisions(u.blocks) = {h}
        /\ u.blocks[Len(u.blocks)] = Actions(<<"processed_action">>)
        /\ ControlsOf(u.blocks) = {"processed_action"}

\* no message of the follow-up channel was posted by a decision
NoPostByDecision == \A ts \in 1..Len(chat) : tasks[chat[ts].eid].ev.kind = "message"

\* the action events the Processed control of message ts has raised
ProcessedPresses(ts) ==
    {j \in 1..Len(tasks) : /\ tasks[j].ev.kind = "action" /\ tasks[j].ev.ts = ts
                           /\ tasks[j].ev.action_id = "processed_action"}

\* C11: a decision updates the message the action event names, in place: the
\* new content has none of the snapshot's action controls, keeps the
\* snapshot's content blocks in order, has exactly one decision line naming
\* the chosen outcome and ends with exactly one control, Processed, which is
\* disabled (it raises no action event).
C11_RerenderedInPlace ==
    /\ NoPostByDecision
    /\ \A u \in updates : Rerendered(u) /\ ProcessedPresses(u.ts) = {}

\* C11 without the last clause: everything but the control being disabled
C11_AllButDisabled ==
    /\ NoPostByDecision
    /\ \A u \in updates : Rerendered(u)

\* the calls of the decision handler for event i that nothing failed in
CleanRun(i) ==
    /\ IsDecision(i) /\ Done(i)
    /\ ~\E l \in log : l.eid = i /\ l.what # "Handler completed"

\* the interaction of a deal is the one the claim describes for its event
InteractionAsSpecified(d) ==
    /\ d.interaction.Subject[1] = DealSubjectPrefix(action_handlers[tasks[d.eid].ev.action_id])
    /\ d.interaction.Companies = d.lookup[1]
    /\ d.interaction.Type = INTERACTION_TYPE

\* C12: with the CRM enabled and the earlier steps succeeding, each handled
\* decision performs exactly one interaction insert, whose subject carries the
\* outcome name, whose company is the first record of the company lookup and
\* whose type is the fixed code; when the lookup returns no company, nothing
\* is inserted and the call fails.
C12_OneInteractionPerDecision ==
    /\ \A i \in 1..Len(tasks) :
          (CleanRun(i) /\ enable_dealcloud) => Cardinality(DealsOf({i})) = 1
    /\ \A d \in deals : InteractionAsSpecified(d)
    /\ \A l \in log :
          l.what = "No companies found" =>
             /\ ~\E d \in deals : d.eid = l.eid /\ d.ci = l.ci
             /\ \E m \in log : /\ m.eid = l.eid /\ m.ci = l.ci
                               /\ m.what = "Failed to create deal in DealCloud"

\* C12 for one call of a handler in place of one decision event
C12_OneInteractionPerCall ==
    /\ \A l \in log :
          l.what = "Handler completed" /\ enable_dealcloud =>
             Cardinality({d \in deals : d.eid = l.eid /\ d.ci = l.ci}) = 1
    /\ \A d \in deals : InteractionAsSpecified(d)
    /\ \A l \in log :
          l.what = "No companies found" =>
             /\ ~\E d \in deals : d.eid = l.eid /\ d.ci = l.ci
             /\ \E m \in log : /\ m.eid = l.eid /\ m.ci = l.ci
                               /\ m.what = "Failed to create deal in DealCloud"

\* C13: when the message update fails and the CRM is enabled, create_deal is
\* still attempted by the same call of the handler.
C13_UpdateFailureDoesNotBlockCrm ==
    \A l \in log :
        (l.what = "Failed to update message" /\ enable_dealcloud) =>
            \/ \E d \in deals : d.eid = l.eid /\ d.ci = l.ci
            \/ \E m \in log : /\ m.eid = l.eid /\ m.ci = l.ci
                              /\ m.what = "Failed to create deal in DealCloud"

\* C14: when create_deal fails, the failure is logged and raised: the call
\* yields no interaction and the decision handler does not complete normally
\* (its exception reaches handle_interaction).
C14_CrmFailureRaises ==
    \A l \in log :
        l.what \in {"No companies found", "Failed to create interaction"} =>
            /\ ~\E d \in deals : d.eid = l.eid /\ d.ci = l.ci
            /\ \A w \in {"Failed to create deal in DealCloud", "Error handling action",
                         "Error handling interaction"} :
                  \E m \in log : m.eid = l.eid /\ m.ci = l.ci /\ m.what = w
            /\ ~\E m \in log : m.eid = l.eid /\ m.ci = l.ci /\ m.what = "Handler completed"

C14_Witness ==
    \E l \in log :
        /\ l.what = "Failed to create interaction"
        /\ Done(l.eid)
        /\ \E u \in updates : u.eid = l.eid /\ u.ci = l.ci
        /\ \E d \in deals : d.eid = l.eid /\ d.ci # l.ci

\* C15: when the message update fails, the exception reaches
\* handle_interaction, which logs it and returns; the handler is not run
\* again for the event, the email it sent stays sent, and the notification
\* keeps its four decision controls.
C15_UpdateFailureEndsTheDecision ==
    \A l \in log :
        l.what = "Failed to update message" =>
            /\ \A w \in {"Error handling action", "Error handling interaction"} :
                  \E m \in log : m.eid = l.eid /\ m.ci = l.ci /\ m.what = w
            /\ tasks[l.eid].ci > l.ci
            /\ \E e \in emails : e.eid = l.eid /\ e.ci = l.ci
            /\ ~\E e \in emails : e.eid = l.eid /\ e.ci > l.ci
            /\ ~\E u \in updates : u.eid = l.eid
            /\ ~\E d \in deals : d.eid = l.eid
            /\ (~\E u \in updates : u.ts = tasks[l.eid].ev.ts) =>
                  DOMAIN action_handlers \subseteq ControlsOf(chat[tasks[l.eid].ev.ts].blocks)

\* C15 for the call that failed alone, whatever later calls do
C15_FailedCallAlone ==
    \A l \in log :
        l.what = "Failed to update message" =>
            /\ \A w \in {"Error handling action", "Error handling interaction"} :
                  \E m \in log : m.eid = l.eid /\ m.ci = l.ci /\ m.what = w
            /\ tasks[l.eid].ci > l.ci
            /\ \E e \in emails : e.eid = l.eid /\ e.ci = l.ci
            /\ ~\E u \in updates : u.eid = l.eid /\ u.ci = l.ci
            /\ ~\E d \in deals : d.eid = l.eid /\ d.ci = l.ci
            /\ (~\E u \in updates : u.ts = tasks[l.eid].ev.ts) =>
                  DOMAIN action_handlers \subseteq ControlsOf(chat[tasks[l.eid].ev.ts].blocks)

\* C16: when posting the initial notification fails, the failure leaves
\* process_transcript (no record is returned) and is logged by
\* handle_slack_event.
C16_PostFailurePropagates ==
    \A l \in log :
        l.what = "Failed to send to Slack" =>
            /\ ~\E r \in returns : r.eid = l.eid /\ r.ci = l.ci
            /\ \E m \in log : /\ m.eid = l.eid /\ m.ci = l.ci
                              /\ m.what \in {"Workflow processing failed",
                                             "Error handling Slack event"}

\* the calls of handle_slack_event for event i that have finished
FinishedProcessing(i) ==
    {c \in 1..Len(run_message_listeners) :
        /\ run_message_listeners[c] = "handle_slack_event"
        /\ tasks[i].ev.kind = "message" /\ tasks[i].ev.subtype = ""
        /\ tasks[i].ci > c}

\* C17: once the processing of a transcript has finished, the operator sees
\* its notification or an error message (unless the error post itself
\* failed), and every decision was taken on a posted notification.
C17_Lifecycle ==
    /\ \A i \in 1..Len(tasks) : \A c \in FinishedProcessing(i) :
          (~\E m \in log : m.eid = i /\ m.ci = c /\ m.what = "Error handling Slack event")
          => \E ts \in 1..Len(chat) :
                /\ chat[ts].eid = i /\ chat[ts].ci = c
                /\ chat[ts].kind \in {"summary", "error"}
    /\ \A e \in emails \cup updates \cup deals :
          e.ts \in 1..Len(chat) /\ chat[e.ts].kind \in {"summary", "analysis"}

\* the action events for message ts have all been handled
Settled(ts) ==
    \A j \in 1..Len(tasks) : (tasks[j].ev.kind = "action" /\ tasks[j].ev.ts = ts) => Done(j)

\* C18: after any sequence of action events for one notification, the
\* decision the notification shows is the outcome whose email and CRM record
\* exist, and there is no email or CRM record for another outcome.
C18_ShownDecisionIsTheOneExecuted ==
    \A ts \in 1..Len(chat) : \A h \in ShownDecisions(chat[ts].blocks) :
        Settled(ts) =>
            /\ \A e \in emails :
                  e.ts = ts => e.msg.template = get_template_for_decision(HandlerDecisionType(h))
            /\ \A d \in deals :
                  d.ts = ts => d.data.Decision = DealDecisionText(h)

\* SlackConfig: the channels a decision may be announced in
FUND_X_CHANNEL    == "fund_x_channel"
NO_ACTION_CHANNEL == "no_action_channel"

BroadcastChannels == {FUND_X_CHANNEL, NO_ACTION_CHANNEL}

\* the calls of a decision handler that ran to their end
CompletedCalls ==
    {l \in log : l.what = "Handler completed" /\ tasks[l.eid].ev.action_id \in DOMAIN action_handlers}

\* the messages a call of a decision handler posted in a broadcast channel
BroadcastsOf(l) ==
    {ts \in 1..Len(chat) : /\ chat[ts].eid = l.eid /\ chat[ts].ci = l.ci
                           /\ chat[ts].channel \in BroadcastChannels}

\* C21: a handled decision posts a summary in the broadcast channel of its
\* outcome: urgent, fund-not-urgent and not-interested each post in a channel
\* of their own, and future-fund posts in no broadcast channel.
C21_DecisionBroadcasts ==
    /\ \A l \in CompletedCalls :
          IF tasks[l.eid].ev.action_id = "future_fund_action"
          THEN BroadcastsOf(l) = {}
          ELSE BroadcastsOf(l) # {}
    /\ \A l, m \in CompletedCalls : \A s \in BroadcastsOf(l) : \A t \in BroadcastsOf(m) :
          tasks[l.eid].ev.action_id # tasks[m.eid].ev.action_id
          => chat[s].channel # chat[t].channel

\* C21, the part that holds: a future-fund decision posts in no broadcast channel
C21_FutureFundSilent ==
    \A l \in CompletedCalls :
        tasks[l.eid].ev.action_id = "future_fund_action" => BroadcastsOf(l) = {}

\* the record of return r has an entry in the cache
Cached(r) == r.state.transcript_id \in DOMAIN message_cache

\* C22: the cache has an entry for a record's id exactly when the record's
\* notification was posted, and the entry holds the notification's channel,
\* its message identity and its rendered content.
C22_CacheEntryOfPosted ==
    \A r \in returns :
        /\ Cached(r) <=> r.ts # 0
        /\ r.ts # 0 =>
              LET entry == message_cache[r.state.transcript_id]
              IN  /\ entry.channel = chat[r.ts].channel
                  /\ entry.ts = r.ts
                  /\ "blocks" \in DOMAIN entry
                  /\ entry.blocks = SendBlocks(r.state)

\* C22, the part that holds: a posted record has an entry, and every entry is
\* the channel and the message identity of a notification posted for its id
C22_EntryLocatesAPost ==
    /\ \A r \in returns : r.ts # 0 => Cached(r)
    /\ \A k \in DOMAIN message_cache :
          \E r \in returns : /\ r.state.transcript_id = k /\ r.ts = message_cache[k].ts
                             /\ r.ts \in 1..Len(chat)
                             /\ chat[r.ts].channel = message_cache[k].channel
                             /\ chat[r.ts].kind = "summary"

\* C23: two records process_transcript created have different ids, also when
\* both were created at one reading of the clock, so the cache entry of a
\* posted record is that record's own.
C23_RecordIdsUnique ==
    /\ \A r, q \in returns :
          <<r.eid, r.ci>> # <<q.eid, q.ci>> => r.state.transcript_id # q.state.transcript_id
    /\ \A r \in returns :
          r.ts # 0 => /\ r.state.transcript_id \in DOMAIN message_cache
                      /\ message_cache[r.state.transcript_id].ts = r.ts

\* C23, the part that holds: a record's id is the reading of the clock at its
\* creation, so that later readings give later ids
C23_IdIsTheClockReading ==
    \A i \in 1..Len(tasks) :
        (Running(i) /\ tasks[i].pc \in {"llm_basic", "llm_company", "llm_participants", "post_summary"})
        => /\ tasks[i].loc.state.transcript_id <= now
           /\ \A r \in returns : r.state.transcript_id <= tasks[i].loc.state.transcript_id

\* the decisions handled for the transcript that record r was made from
HandledFor(r) ==
    {u \in updates : u.ts \in 1..Len(chat) /\ chat[u.ts].src = tasks[r.eid].ev.src}

\* C24: a record's decision is unset when process_transcript returns it, the
\* text-generation service never sets it, and it is set, once, when the
\* operator's action for the record is handled.
C24_DecisionSetByTheAction ==
    \A r \in returns :
        IF HandledFor(r) = {}
        THEN r.state.decision = "None"
        ELSE \E u \in HandledFor(r) :
                r.state.decision = HandlerDecisionType(action_handlers[tasks[u.eid].ev.action_id])

\* C24, the part that holds: on every path of process_transcript the record's
\* decision stays unset
C24_UnsetByTheWorkflow ==
    /\ \A r \in returns : r.state.decision = "None"
    /\ \A i \in 1..Len(tasks) : tasks[i].loc.state.decision = "None"

\* the events whose handling has not started while the handler of event i
\* waits at pc
WaitingBehind(i, pcs) ==
    {j \in 1..Len(tasks) : /\ j # i /\ Running(i) /\ tasks[i].pc \in pcs
                           /\ Running(j) /\ tasks[j].pc = "call"}

\* C25: the email send and the CRM call are suspension points: while a
\* decision handler waits on one of them, the event loop can start the
\* handling of another inbound event.
C25_EmailAndCrmSuspend ==
    \A i \in 1..Len(tasks) : \A j \in WaitingBehind(i, {"email", "crm"}) : ENABLED Step(j)

\* C25, what holds: the chat update is a suspension point
C25_UpdateSuspends ==
    \A i \in 1..Len(tasks) : \A j \in WaitingBehind(i, {"update"}) : ENABLED Step(j)

\* a second event waits while a handler is inside chat.update
C25_UpdateSuspendsSeen ==
    \E i \in 1..Len(tasks) : WaitingBehind(i, {"update"}) # {}

\* the credentials this configuration requires
RequiredCredentials ==
    {"SLACK_BOT_TOKEN"} \cup (IF enable_dealcloud THEN {"DC_SDK_CLIENT_SECRET"} ELSE {})

\* C26: a missing required credential is found at startup and the process
\* does not start: with the CRM enabled and its credentials missing no
\* inbound event is ever handled, so the failure never first shows while a
\* decision is handled.
C26_MissingCredentialStopsStartup ==
    ~(RequiredCredentials \subseteq bot.env) =>
        /\ bot.phase # "running"
        /\ tasks = <<>>
        /\ ~\E l \in log : l.what = "Failed to initialize DealCloud SDK"

\* C26, the part that holds: without the Slack tokens the process ends at
\* startup and handles nothing
C26_SlackCredentialStopsStartup ==
    "SLACK_BOT_TOKEN" \notin bot.env => bot.phase # "running" /\ tasks = <<>>

\* the failure first shows inside a decision: the email is sent and the
\* notification re-rendered when create_deal finds no credentials
C26_FailureInsideADecision ==
    \E l \in log :
        /\ l.what = "Failed to initialize DealCloud SDK"
        /\ \E e \in emails : e.eid = l.eid /\ e.ci = l.ci
        /\ \E u \in updates : u.eid = l.eid /\ u.ci = l.ci

\* the confirmation a decision line carries when an email went out
EmailConfirmation == <<"Test email sent to", SP, TEST_EMAIL>>

\* the decision lines of update u that carry the confirmation
Confirmed(u) ==
    {k \in DecisionLines(u.blocks, action_handlers[tasks[u.eid].ev.action_id]) :
        Contains(u.blocks[k].text, EmailConfirmation)}

\* C28: the decision line of a re-rendered notification carries the
\* email-sent confirmation if and only if the call of the handler that
\* re-rendered it sent its email.
C28_ConfirmationIffEmailSent ==
    \A u \in updates :
        /\ DecisionLines(u.blocks, action_handlers[tasks[u.eid].ev.action_id]) # {}
        /\ Confirmed(u) # {} <=> \E e \in emails : e.eid = u.eid /\ e.ci = u.ci

\* a notification was re-rendered with the confirmation by a call whose email
\* went out, after the other call for the same event had failed to send its
\* email and re-rendered nothing
C28_Witness ==
    \E u \in updates :
        /\ Confirmed(u) # {}
        /\ \E e \in emails : e.eid = u.eid /\ e.ci = u.ci
        /\ \E l \in log : /\ l.eid = u.eid /\ l.ci # u.ci /\ l.what = "Failed to send email"
                          /\ ~\E v \in updates : v.eid = l.eid /\ v.ci = l.ci

\* the call of the handler that made update u has ended
CallEnded(u) == ~(Running(u.eid) /\ tasks[u.eid].ci = u.ci)

\* C30: with the CRM enabled, a notification shows a completed decision only
\* if the CRM record of that decision was created: once the handler has
\* ended, every re-rendered notification has its interaction.
C30_TerminalMeansCrmDone ==
    enable_dealcloud =>
        \A u \in updates :
            CallEnded(u) => \E d \in deals : d.eid = u.eid /\ d.ci = u.ci /\ d.ts = u.ts

\* C30, what holds: the email of the decision went out before the
\* notification was re-rendered
C30_TerminalMeansEmailDone ==
    \A u \in updates : \E e \in emails : e.eid = u.eid /\ e.ci = u.ci /\ e.ts = u.ts

\* the email, the update and the interaction of the handler call task i is in
EmailOfCall(i)  == {e \in emails  : e.eid = i /\ e.ci = tasks[i].ci}
UpdateOfCall(i) == {u \in updates : u.eid = i /\ u.ci = tasks[i].ci}

\* C31: in every run of a decision handler the side effects are ordered: the
\* message update starts only after the email send of the run succeeded, and
\* the CRM creation starts only after the message update of the run succeeded.
C31_SideEffectsOrdered ==
    /\ \A i \in 1..Len(tasks) :
          /\ (Running(i) /\ tasks[i].pc = "update") => EmailOfCall(i) # {}
          /\ (Running(i) /\ tasks[i].pc = "crm") => EmailOfCall(i) # {} /\ UpdateOfCall(i) # {}
    /\ \A u \in updates : \E e \in emails : e.eid = u.eid /\ e.ci = u.ci
    /\ \A d \in deals : \E u \in updates : u.eid = d.eid /\ u.ci = d.ci

\* C31: a handler run is inside create_deal after its email and its update,
\* and another run ended at the failure of its update with its email sent
C31_Witness ==
    /\ \E i \in 1..Len(tasks) :
          Running(i) /\ tasks[i].pc = "crm" /\ EmailOfCall(i) # {} /\ UpdateOfCall(i) # {}
    /\ \E l \in log :
          /\ l.what = "Failed to update message"
          /\ \E e \in emails : e.eid = l.eid /\ e.ci = l.ci
          /\ ~\E d \in deals : d.eid = l.eid /\ d.ci = l.ci

\* the meeting analyses posted for the source message src
AnalysesOf(src) ==
    {ts \in 1..Len(chat) : chat[ts].kind = "analysis" /\ chat[ts].src = src
                           /\ chat[ts].channel = FOLLOW_UP_CHANNEL}

\* C32: for one source message timestamp at most one meeting analysis is
\* posted in the follow-up channel, also when a message event and a
\* message_changed event for it are handled at the same time, and a timestamp
\* is marked processed only after its analysis was posted.
C32_OneAnalysisPerMessage ==
    /\ \A src \in SourceMessages : Cardinality(AnalysesOf(src)) <= 1
    /\ \A src \in processed_messages : AnalysesOf(src) # {}

\* C32, what holds: a timestamp is marked processed only after an analysis
\* for it was posted, and listeners that run one after the other post one
C32_MarkedAfterPosted ==
    /\ \A src \in processed_messages : AnalysesOf(src) # {}
    /\ \A src \in SourceMessages :
          \A a, b \in AnalysesOf(src) : a # b => chat[a].eid # chat[b].eid

\* C32: the second analysis is posted by the event that started while the
\* first was fetching the notes
C32_SecondAnalysisSeen ==
    \E src \in SourceMessages : Cardinality(AnalysesOf(src)) = 2

\* the notifications of kind k posted in the follow-up channel for message src
NotificationsOf(src, k) ==
    {ts \in 1..Len(chat) : chat[ts].kind = k /\ chat[ts].src = src
                           /\ chat[ts].channel = FOLLOW_UP_CHANNEL}

\* C33: one transcript message of the source channel results in at most one
\* notification (the summary of its record) in the follow-up channel, with
\* the all-events listener, handle_interaction and handle_slack_event all
\* registered as socket listeners.
C33_OneNotificationPerMessage ==
    \A src \in SourceMessages : Cardinality(NotificationsOf(src, "summary")) <= 1

\* C33, what holds: a message event gets one summary per call of
\* handle_slack_event, and that listener is called twice per event
C33_OneSummaryPerCall ==
    \A src \in SourceMessages :
        \A a, b \in NotificationsOf(src, "summary") :
            (chat[a].eid = chat[b].eid /\ chat[a].ci = chat[b].ci) => a = b

\* C37: an action event whose first action id has no registered handler
\* causes no email, no message update and no CRM call, and only the first
\* action of an event's actions list is ever dispatched: what an event
\* causes is the work of the first action's handler.
C37_OnlyFirstActionDispatched ==
    \A i \in 1..Len(tasks) :
        tasks[i].ev.kind = "action" =>
            /\ tasks[i].ev.action_id \notin DOMAIN action_handlers =>
                  /\ EmailsOf({i}) = {} /\ UpdatesOf({i}) = {} /\ DealsOf({i}) = {}
                  /\ ~(Running(i) /\ tasks[i].pc \in {"email", "update", "crm"})
            /\ tasks[i].ev.action_id \in DOMAIN action_handlers =>
                  /\ \A e \in EmailsOf({i}) :
                        e.msg = EmailOf(action_handlers[tasks[i].ev.action_id],
                                        _extract_state_from_blocks(tasks[i].ev.blocks))
                  /\ \A u \in UpdatesOf({i}) :
                        u.decision = DecisionText(action_handlers[tasks[i].ev.action_id])
                  /\ (Running(i) /\ tasks[i].pc \in {"email", "update", "crm"}) =>
                        tasks[i].loc.handler = action_handlers[tasks[i].ev.action_id]

\* C37: a press of the Processed control whose event also carries a decision
\* action has been handled and nothing was done for it, and an event with two
\* decisions was handled as its first
C37_Witness ==
    /\ \E i \in 1..Len(tasks) :
          /\ Done(i)
          /\ tasks[i].ev.action_id = "processed_action" /\ tasks[i].ev.more = <<"urgent_action">>
          /\ \E l \in log : l.eid = i /\ l.what = "No handler found for action"
    /\ \E i \in 1..Len(tasks) :
          /\ Done(i)
          /\ tasks[i].ev.action_id = "not_interested_action" /\ tasks[i].ev.more = <<"urgent_action">>
          /\ UpdatesOf({i}) # {}

(***************************************************************************)
(* TranscriptionAgent.process on its own: one run over replies drawn from  *)
(* bounded sets.  A reply is described by what the service wrote and is    *)
(* serialised to the text the agent receives.                              *)
(***************************************************************************)
RECURSIVE StrList(_)
StrList(items) ==
    IF items = <<>> THEN <<>>
    ELSE Str(items[1]) \o (IF Len(items) > 1 THEN <<COMMA, SP>> \o StrList(Tail(items)) ELSE <<>>)

Fenced(text) == <<FENCE, JSONW, NL>> \o text \o <<NL, FENCE>>

Prose == <<"Sorry,", SP, "I", SP, "cannot", SP, "help">>

BasicForms    == {"json", "fenced", "prose", "top_list", "no_summary", "points_string", "error"}
PXSummaries   == {<<"Acme", SP, "raised", SP, "seed">>, <<>>, <<SP>>}
PXKeyPoints   == {<<>>, <<<<"growing">>>>, <<<<"growing">>, <<"seed", SP, "round">>>>}

BasicJson(d) ==
    Obj(Member("summary", Str(d.summary)) \o <<COMMA, SP>>
        \o Member("key_points", List(StrList(d.key_points))))

\* the reply to the summary / key points prompt
BasicReply(d) ==
    CASE d.form = "json"          -> LLMText(BasicJson(d))
      [] d.form = "fenced"        -> LLMText(Fenced(BasicJson(d)))
      [] d.form = "prose"         -> LLMText(Prose)
      [] d.form = "top_list"      -> LLMText(List(StrList(d.key_points)))
      [] d.form = "no_summary"    -> LLMText(Obj(Member("key_points", List(StrList(d.key_points)))))
      [] d.form = "points_string" -> LLMText(Obj(Member("summary", Str(d.summary)) \o <<COMMA, SP>>
                                                 \o Member("key_points", Str(<<"growing">>))))
      [] d.form = "error"         -> LLMError

CompanyForms == {"good", "name_only", "no_name", "empty_name", "bad_industry", "prose", "error"}

\* the reply to the company prompt
CompanyReply(form) ==
    CASE form = "good"         -> LLMText(GoodCompany)
      [] form = "name_only"    -> LLMText(Fenced(Obj(Member("name", Str(<<"Acme", SP, "Corp">>)))))
      [] form = "no_name"      -> LLMText(Obj(Member("industry", Str(<<"saas">>))))
      [] form = "empty_name"   -> LLMText(Obj(Member("name", Str(<<>>))))
      [] form = "bad_industry" -> LLMText(Obj(Member("name", Str(<<"Acme", SP, "Corp">>)) \o <<COMMA, SP>>
                                              \o Member("industry", Str(<<"crypto">>))))
      [] form = "prose"        -> LLMText(Prose)
      [] form = "error"        -> LLMError

ParticipantForms == {"good", "nameless", "bad_role", "mixed", "one_bad_role", "prose", "error"}

\* entries the service writes in a participants list
John         == Obj(Member("name", Str(<<"John">>)) \o <<COMMA, SP>> \o Member("role", Str(<<"CEO">>)))
Jane         == Obj(Member("name", Str(<<"Jane">>)))
JaneListRole == Obj(Member("name", Str(<<"Jane">>)) \o <<COMMA, SP>> \o Member("role", List(<<>>)))
Nameless     == Obj(Member("role", Str(<<"CEO">>)))

\* the reply to the participants prompt
ParticipantsReply(form) ==
    CASE form = "good"     -> LLMText(GoodParticipants)
      [] form = "nameless" -> LLMText(Obj(Member("participants",
                                                 List(Obj(Member("role", Str(<<"CEO">>)))))))
      [] form = "bad_role" -> LLMText(Obj(Member("participants",
                                                 List(Obj(Member("name", Str(<<"John">>)) \o <<COMMA, SP>>
                                                          \o Member("role", List(<<>>)))))))
      [] form = "mixed"    -> LLMText(Obj(Member("participants",
                                                 List(John \o <<COMMA, SP>> \o Nameless
                                                      \o <<COMMA, SP>> \o Jane))))
      [] form = "one_bad_role" -> LLMText(Obj(Member("participants",
                                                     List(John \o <<COMMA, SP>> \o JaneListRole))))
      [] form = "prose"    -> LLMText(Prose)
      [] form = "error"    -> LLMError

NoResult ==
    [raised |-> "", error |-> <<>>, summary |-> <<>>, key_points |-> <<>>,
     company_info |-> NoCompany, participants |-> <<>>]

\* the runs of process: blank is the transcript being empty or whitespace,
\* calls the prompts sent to the text-generation service so far
Runs(stages, blanks) ==
    [stage : stages,
     blank : blanks,
     basic : [form : BasicForms, summary : PXSummaries, key_points : PXKeyPoints],
     company : CompanyForms,
     participants : ParticipantForms,
     calls : {<<>>},
     result : {NoResult}]

\* process with a transcript that has content, past its first check
InitExtract ==
    /\ BotInit
    /\ bot = Unstarted
    /\ rt = "idle"
    /\ px \in Runs({"basic"}, {FALSE})

\* a _call_llm that sends its request a second time
CallTwice(calls, prompt) == calls \o <<prompt, prompt>>

\* _call_llm: one request to the text-generation service
_call_llm(calls, prompt) == Append(calls, prompt)

\* process, lines 32-46: the mandatory step with the outcome of ProcessBasic
PX_BasicStep(basic) ==
    px' = IF basic.ok
          THEN [px EXCEPT !.stage = "company",
                          !.calls = _call_llm(@, "basic"),
                          !.result.summary = basic.summary,
                          !.result.key_points = basic.key_points]
          ELSE [px EXCEPT !.stage = "raised",
                          !.calls = _call_llm(@, "basic"),
                          !.result.raised = "AgentProcessingError",
                          !.result.error = basic.error]

PX_Basic ==
    /\ px.stage = "basic"
    /\ PX_BasicStep(ProcessBasic(BasicReply(px.basic)))
    /\ UNCHANGED <<botvars, rt>>

\* process, lines 48-54: the company step
PX_Company ==
    /\ px.stage = "company"
    /\ px' = [px EXCEPT !.stage = "participants",
                        !.calls = _call_llm(@, "company"),
                        !.result.company_info = ProcessCompany(CompanyReply(px.company))]
    /\ UNCHANGED <<botvars, rt>>

\* process, lines 56-64: the participants step, and the return of the record
PX_Participants ==
    /\ px.stage = "participants"
    /\ px' = [px EXCEPT !.stage = "returned",
                        !.calls = _call_llm(@, "participants"),
                        !.result.participants = ProcessParticipants(ParticipantsReply(px.participants))]
    /\ UNCHANGED <<botvars, rt>>

NextExtract == PX_Basic \/ PX_Company \/ PX_Participants

SpecExtract == InitExtract /\ [][NextExtract]_vars

PXFinished == px.stage \in {"raised", "returned"}

\* what the service wrote for the basics, read off the description
BlankSummary(d)  == \A k \in 1..Len(d.summary) : d.summary[k] \in Whitespace
WrongShaped(d)   == d.form \in {"prose", "top_list", "no_summary", "points_string", "error"}
MeaningfulBasics(d) == ~WrongShaped(d) /\ ~BlankSummary(d) /\ d.key_points # <<>>

\* C7: a basic-info reply with a blank summary or an empty key_points list, or
\* one that is unparsable or wrong-shaped, makes process raise
\* AgentProcessingError, whatever the company and participants replies are.
C7_BadBasicsRaise ==
    (PXFinished /\ ~MeaningfulBasics(px.basic))
    => px.stage = "raised" /\ px.result.raised = "AgentProcessingError"

C7_Witness ==
    /\ px.stage = "raised"
    /\ px.basic.form = "json" /\ px.basic.summary = <<SP>> /\ px.basic.key_points # <<>>
    /\ px.company = "good" /\ px.participants = "good"

\* C8: when the mandatory step succeeds, process returns the record with
\* summary and key_points set for every company and participants reply and
\* raises nothing; a company reply without a name leaves the company unset.
C8_EnrichmentNeverEscalates ==
    (PXFinished /\ MeaningfulBasics(px.basic))
    => /\ px.stage = "returned" /\ px.result.raised = ""
       /\ px.result.summary = px.basic.summary
       /\ px.result.key_points = px.basic.key_points
       /\ px.company \in {"no_name", "empty_name", "prose", "error"} => ~px.result.company_info.present

C8_Witness ==
    /\ px.stage = "returned"
    /\ px.company = "no_name" /\ px.participants = "error"
    /\ px.result.summary # <<>> /\ px.result.key_points # <<>>
    /\ ~px.result.company_info.present

\* the names of the entries the service wrote with a name, in order
NamesWritten(form) ==
    CASE form = "good"         -> <<<<"John">>>>
      [] form = "nameless"     -> <<>>
      [] form = "bad_role"     -> <<<<"John">>>>
      [] form = "mixed"        -> <<<<"John">>, <<"Jane">>>>
      [] form = "one_bad_role" -> <<<<"John">>, <<"Jane">>>>
      [] form = "prose"        -> <<>>
      [] form = "error"        -> <<>>

\* C20: the record's participants are exactly the entries of the reply's
\* participants list that have a name, in order; an entry without a name is
\* dropped alone, an unparsable reply gives no participants.
C20_NamedParticipantsKept ==
    px.stage = "returned"
    => [k \in 1..Len(px.result.participants) |-> px.result.participants[k].name]
       = NamesWritten(px.participants)

\* C20 for the replies whose named entries are well-typed throughout
C20_NamelessDroppedAlone ==
    (px.stage = "returned" /\ px.participants \notin {"bad_role", "one_bad_role"})
    => [k \in 1..Len(px.result.participants) |-> px.result.participants[k].name]
       = NamesWritten(px.participants)

(***************************************************************************)
(* TranscriptionAgent.process from its first line: the transcript may be   *)
(* blank, and the prompts sent to the text-generation service are kept.    *)
(***************************************************************************)
InitCalls ==
    /\ BotInit
    /\ bot = Unstarted
    /\ rt = "idle"
    /\ px \in Runs({"check"}, BOOLEAN)

\* process, lines 27-28: a transcript without content is refused
PX_Check ==
    /\ px.stage = "check"
    /\ px' = IF px.blank
             THEN [px EXCEPT !.stage = "raised",
                             !.result.raised = "AgentProcessingError",
                             !.result.error = <<"No transcript content provided">>]
             ELSE [px EXCEPT !.stage = "basic"]
    /\ UNCHANGED <<botvars, rt>>

NextCalls == PX_Check \/ PX_Basic \/ PX_Company \/ PX_Participants

SpecCalls == InitCalls /\ [][NextCalls]_vars

\* C27: an extraction that returns has called the text-generation service
\* exactly three times, for the basics, the company and the participants in
\* this order; one that raises, on a blank transcript or in the mandatory
\* step, has made no company call and no participants call.
C27_ThreeCallsInOrder ==
    /\ px.stage = "returned" => px.calls = <<"basic", "company", "participants">>
    /\ px.stage = "raised" =>
          /\ px.calls = (IF px.blank THEN <<>> ELSE <<"basic">>)
          /\ px.blank \/ ~ProcessBasic(BasicReply(px.basic)).ok

\* an extraction returned although the company call and the participants
\* call both failed: the three calls were made all the same
C27_Witness ==
    /\ px.stage = "returned"
    /\ px.company = "error" /\ px.participants = "error"
    /\ px.calls = <<"basic", "company", "participants">>

\* a blank transcript was refused before any call
C27_BlankRefused ==
    px.stage = "raised" /\ px.blank /\ px.calls = <<>>

(***************************************************************************)
(* The cleaning of a reply on its own: the service writes one valid        *)
(* {summary, key_points} object, bare, fenced or inside prose; the reply   *)
(* is cleaned as _extract_basic_info cleans it, then parsed and checked.  *)
(***************************************************************************)
Wraps       == {"bare", "fenced", "fenced_plain", "prose", "prose_fenced", "prose_braces"}
CLSummaries == {<<"Acme", SP, "raised", SP, "seed">>,
                <<"Acme", SP, "sells", SP, "json", SP, "tools">>,
                <<"Acme", SP, LBRACE, "stealth", RBRACE>>}
CLKeyPoints == {<<<<"growing">>>>,
                <<<<"growing">>, <<"seed", SP, "round">>>>,
                <<<<"json", SP, "api">>>>}

Intro == <<"Here", SP, "is", SP, "the", SP, "analysis:", NL>>
Outro == <<NL, "Let", SP, "me", SP, "know">>

\* the text of the reply that holds the object d describes
Wrapped(d) ==
    CASE d.wrap = "bare"         -> BasicJson(d)
      [] d.wrap = "fenced"       -> Fenced(BasicJson(d))
      [] d.wrap = "fenced_plain" -> <<FENCE, NL>> \o BasicJson(d) \o <<NL, FENCE>>
      [] d.wrap = "prose"        -> Intro \o BasicJson(d) \o Outro
      [] d.wrap = "prose_fenced" -> Intro \o Fenced(BasicJson(d)) \o Outro
      [] d.wrap = "prose_braces" -> <<"Result", SP, LBRACE, "draft", RBRACE, ":", NL>> \o BasicJson(d)

InitClean ==
    /\ BotInit
    /\ bot = Unstarted
    /\ rt = "idle"
    /\ px \in [stage : {"reply"}, wrap : Wraps, summary : CLSummaries, key_points : CLKeyPoints,
               cleaned : {<<>>}, result : {NoResult}]

\* _extract_basic_info, lines 98-109: the reply is stripped and cleaned
CL_Clean ==
    /\ px.stage = "reply"
    /\ px' = [px EXCEPT !.stage = "cleaned", !.cleaned = CleanResponse(Wrapped(px))]
    /\ UNCHANGED <<botvars, rt>>

\* the rest of the mandatory step on the outcome of the parse and the checks
CL_ExtractStep(basic) ==
    px' = IF basic.ok
          THEN [px EXCEPT !.stage = "returned",
                          !.result.summary = basic.summary,
                          !.result.key_points = basic.key_points]
          ELSE [px EXCEPT !.stage = "raised",
                          !.result.raised = "AgentProcessingError",
                          !.result.error = basic.error]

\* _extract_basic_info, lines 111-127, and process, lines 32-46
CL_Extract ==
    /\ px.stage = "cleaned"
    /\ CL_ExtractStep(BasicOf(TRUE, BasicInfoOf(json_loads(px.cleaned))))
    /\ UNCHANGED <<botvars, rt>>

NextClean == CL_Clean \/ CL_Extract

SpecClean == InitClean /\ [][NextClean]_vars

\* C19: for every reply holding one valid {summary, key_points} object, bare,
\* in code fences or surrounded by prose, the cleaning yields exactly the
\* text of the object and the extraction succeeds with the object's summary
\* and key_points unchanged.
C19_CleaningYieldsTheObject ==
    /\ px.stage # "reply" => px.cleaned = BasicJson(px)
    /\ px.stage \in {"raised", "returned"} =>
          /\ px.stage = "returned"
          /\ px.result.summary = px.summary
          /\ px.result.key_points = px.key_points

\* C19 for replies without the word json inside the fences and without
\* braces in the prose
C19_PlainReplies ==
    (/\ px.wrap # "prose_braces"
     /\ px.wrap \in {"fenced", "fenced_plain", "prose_fenced"} =>
           ~Contains(BasicJson(px), <<JSONW>>))
    => C19_CleaningYieldsTheObject

(***************************************************************************)
(* Render, extract and route on their own: a record is rendered by         *)
(* SlackOutputHandler.send, the blocks are read back by                    *)
(* _extract_state_from_blocks, and a handler builds its email from them.   *)
(***************************************************************************)
\* bound: the action events routed in one run
MaxRoutes == 2

RTSummaries == {<<"Acme", SP, "raised", SP, "seed">>, <<STAR, "Acme", STAR, SP, "grows">>}
RTKeyPoints == {<<<<"growing">>>>, <<<<"growing">>, <<"seed", SP, "round">>>>}
RTCompanies ==
    {NoCompany,
     [present |-> TRUE, name |-> <<"Acme", SP, "Corp">>, industry |-> <<>>,       stage |-> <<>>],
     [present |-> TRUE, name |-> <<"Acme", SP, "Corp">>, industry |-> <<"saas">>, stage |-> <<>>],
     [present |-> TRUE, name |-> <<"Acme", SP, "Corp">>, industry |-> <<"saas">>, stage |-> <<"seed">>]}
RTParticipants == {<<>>, <<[name |-> <<"John">>, role |-> <<"CEO">>]>>}

\* the records process can return
Records ==
    {[NoRecord EXCEPT !.transcript_id = 1, !.summary = su, !.key_points = kp,
                      !.company_info = co, !.participants = pa] :
        su \in RTSummaries, kp \in RTKeyPoints, co \in RTCompanies, pa \in RTParticipants}

NoRoute == [action_id |-> "", state_data |-> EmptyStateData, msg |-> "none"]

InitRoundTrip ==
    /\ BotInit
    /\ bot = Unstarted
    /\ px = "idle"
    /\ rt \in [stage : {"record"}, record : Records, blocks : {<<>>},
               state_data : {EmptyStateData}, routes : {0}, prev : {NoRoute}, last : {NoRoute}]

\* SlackOutputHandler.send renders the record
RT_Render ==
    /\ rt.stage = "record"
    /\ rt' = [rt EXCEPT !.stage = "rendered", !.blocks = SendBlocks(rt.record)]
    /\ UNCHANGED <<botvars, px>>

\* a handler reads the state back out of the blocks of the message
RT_Extract ==
    /\ rt.stage = "rendered"
    /\ rt' = [rt EXCEPT !.stage = "extracted", !.state_data = _extract_state_from_blocks(rt.blocks)]
    /\ UNCHANGED <<botvars, px>>

\* the handler registered for an action id builds its email
RT_Route ==
    /\ rt.stage = "extracted"
    /\ rt.routes < MaxRoutes
    /\ \E a \in DOMAIN action_handlers :
          rt' = [rt EXCEPT !.stage = "routed", !.routes = @ + 1, !.prev = rt.last,
                           !.last = [action_id |-> a, state_data |-> rt.state_data,
                                     msg |-> EmailOf(action_handlers[a], rt.state_data)]]
    /\ UNCHANGED <<botvars, px>>

\* the next record: the same meeting with another company
RT_Again ==
    /\ rt.stage = "routed"
    /\ rt.routes < MaxRoutes
    /\ \E co \in RTCompanies :
          rt' = [rt EXCEPT !.stage = "record", !.record.company_info = co, !.blocks = <<>>,
                           !.state_data = EmptyStateData]
    /\ UNCHANGED <<botvars, px>>

NextRoundTrip == RT_Render \/ RT_Extract \/ RT_Route \/ RT_Again

SpecRoundTrip == InitRoundTrip /\ [][NextRoundTrip]_vars

StripEmphasis(text) == Remove(text, STAR)

\* C9: rendering a record and extracting the state from the blocks gives back
\* the record's company name, summary and key points (emphasis marks aside),
\* with or without industry, stage and participants.
C9_RoundTrip ==
    rt.stage = "extracted" =>
        /\ rt.state_data.company_name =
              (IF rt.record.company_info.present
               THEN StripEmphasis(rt.record.company_info.name) ELSE <<>>)
        /\ rt.state_data.summary = StripEmphasis(rt.record.summary)
        /\ rt.state_data.key_points =
              [k \in 1..Len(rt.record.key_points) |-> StripEmphasis(rt.record.key_points[k])]

\* the template the specification names for each action id
TemplateFor(action_id) ==
    CASE action_id = "urgent_action"          -> "urgent_follow_up"
      [] action_id = "fund_not_urgent_action" -> "fund_not_urgent"
      [] action_id = "future_fund_action"     -> "future_fund"
      [] action_id = "not_interested_action"  -> "no_action"

\* C10: the email of an action event is rendered from the template fixed for
\* its action id; two events with the same id select the same template
\* whatever the content of their notifications.
C10_TemplateByActionId ==
    /\ rt.last # NoRoute => rt.last.msg.template = TemplateFor(rt.last.action_id)
    /\ rt.prev # NoRoute => rt.prev.msg.template = TemplateFor(rt.prev.action_id)
    /\ (rt.last # NoRoute /\ rt.prev # NoRoute /\ rt.last.action_id = rt.prev.action_id)
          => rt.last.msg.template = rt.prev.msg.template

C10_Witness ==
    /\ rt.last # NoRoute /\ rt.prev # NoRoute
    /\ rt.last.action_id = "future_fund_action" /\ rt.prev.action_id = "future_fund_action"
    /\ rt.last.state_data # rt.prev.state_data
    /\ rt.last.msg.template = "future_fund" /\ rt.prev.msg.template = "future_fund"

(***************************************************************************)
(* The extractor applied twice: _extract_state_from_blocks is called on    *)
(* the blocks of a notification, and again on what the first call left of  *)
(* them.                                                                   *)
(***************************************************************************)
\* the notifications the bot renders: the summary of a record, the analysis
\* of a meeting, and either of them re-rendered with a decision
RenderedBlocks ==
    {SendBlocks(r) : r \in Records} \cup {FollowupBlocks(MeetingInfo, n) : n \in MeetingNotes}

ExtractorInputs ==
    RenderedBlocks \cup {UpdateBlocks(h, b, TRUE) : h \in Handlers, b \in RenderedBlocks}

\* an extractor that consumes what it reads: it takes the label off each
\* section it has recognised
ExtractConsuming(blocks) ==
    [state_data |-> _extract_state_from_blocks(blocks),
     blocks     |-> [k \in 1..Len(blocks) |->
                        IF blocks[k].type = "section"
                        THEN [blocks[k] EXCEPT !.text = Remove(Remove(@, "Company:"), "Summary:")]
                        ELSE blocks[k]]]

\* a call of _extract_state_from_blocks: what it returns and what it leaves
\* of its argument; it builds a new dict and assigns to nothing in blocks
ExtractCall(blocks) ==
    [state_data |-> _extract_state_from_blocks(blocks), blocks |-> blocks]

InitTwice ==
    /\ BotInit
    /\ bot = Unstarted
    /\ px = "idle"
    /\ rt \in [stage : {"given"}, given : ExtractorInputs, blocks : {<<>>},
               first : {EmptyStateData}, second : {EmptyStateData}]

\* the caller passes the blocks it holds
ET_Pass ==
    /\ rt.stage = "given"
    /\ rt' = [rt EXCEPT !.stage = "passed", !.blocks = rt.given]
    /\ UNCHANGED <<botvars, px>>

ET_First ==
    /\ rt.stage = "passed"
    /\ rt' = [rt EXCEPT !.stage = "once", !.first = ExtractCall(rt.blocks).state_data,
                        !.blocks = ExtractCall(rt.blocks).blocks]
    /\ UNCHANGED <<botvars, px>>

ET_Second ==
    /\ rt.stage = "once"
    /\ rt' = [rt EXCEPT !.stage = "twice", !.second = ExtractCall(rt.blocks).state_data,
                        !.blocks = ExtractCall(rt.blocks).blocks]
    /\ UNCHANGED <<botvars, px>>

NextTwice == ET_Pass \/ ET_First \/ ET_Second

SpecTwice == InitTwice /\ [][NextTwice]_vars

retries == 3

Providers == {"gmail", "office365"}

\* self._smtp: None, an SMTP object whose socket is open, or one whose socket
\* the failed command closed
SmtpStates == {"none", "open", "closed"}

\* last_error = None, and what `raise None` raises
NoError   == [attempt |-> 0, at |-> "None"]
TypeError == [attempt |-> 0, at |-> "TypeError"]

\* the exception of attempt k of the run, raised at step at
ErrorOf(k, at) == [attempt |-> k, at |-> at]

InitSend ==
    /\ BotInit
    /\ bot = Unstarted
    /\ rt = "idle"
    /\ px \in [pc : {"connect"}, provider : Providers, smtp : SmtpStates,
               attempts : {<<>>}, last_error : {NoError}, sent : {0},
               result : {"running"}, raised : {NoError}]

\* a send_email that goes on to the next attempt after the message was sent
EndOfAttemptResends(run, ok) ==
    IF Len(run.attempts) < retries
    THEN [run EXCEPT !.pc = "connect"]
    ELSE IF ok
    THEN [run EXCEPT !.pc = "done", !.result = "returned"]
    ELSE [run EXCEPT !.pc = "done", !.result = "raised",
                     !.raised = IF run.last_error = NoError THEN TypeError ELSE run.last_error]

\* the end of an attempt: return True after the message was sent; otherwise
\* the loop goes on, and after the last attempt last_error is raised
EndOfAttempt(run, ok) ==
    IF ok
    THEN [run EXCEPT !.pc = "done", !.result = "returned"]
    ELSE IF Len(run.attempts) < retries
    THEN [run EXCEPT !.pc = "connect"]
    ELSE [run EXCEPT !.pc = "done", !.result = "raised",
                     !.raised = IF run.last_error = NoError THEN TypeError ELSE run.last_error]

\* connect(): an object left in self._smtp is quit and forgotten; SMTP() may
\* raise before self._smtp is assigned, starttls() or login() after it; every
\* exception is logged and turned into False, on which send_email continues
SE_Connect ==
    /\ px.pc = "connect"
    /\ \/ px' = EndOfAttempt([px EXCEPT !.attempts = Append(@, "socket"), !.smtp = "none"], FALSE)
       \/ \E left \in {"open", "closed"} :
             px' = EndOfAttempt([px EXCEPT !.attempts = Append(@, "login"), !.smtp = left], FALSE)
       \/ px' = [px EXCEPT !.pc = "send", !.smtp = "open"]
    /\ UNCHANGED <<botvars, rt>>

\* disconnect(): quit() closes the socket; self._smtp is forgotten only when
\* quit() did not raise
Disconnected == {"none", "closed"}

\* send_message returns and the attempt ends in disconnect and return True, or
\* it raises: the exception becomes last_error and disconnect is awaited
SE_Send ==
    /\ px.pc = "send"
    /\ \E left \in Disconnected :
          \/ px' = EndOfAttempt([px EXCEPT !.attempts = Append(@, "sent"), !.sent = @ + 1,
                                           !.smtp = left], TRUE)
          \/ px' = EndOfAttempt([px EXCEPT !.attempts = Append(@, "send"), !.smtp = left,
                                           !.last_error = ErrorOf(Len(px.attempts) + 1, "send")],
                                FALSE)
    /\ UNCHANGED <<botvars, rt>>

NextSend == SE_Connect \/ SE_Send

SpecSend == InitSend /\ [][NextSend]_vars

\* C34: one send_email call makes at most 3 attempts, stops at the first
\* attempt that succeeds, hands the message to the transport at most once, and
\* returns success only if one attempt delivered the message.
C34_AtMostThreeAttemptsOneDelivery ==
    /\ Len(px.attempts) <= 3
    /\ px.sent <= 1
    /\ \A k \in 1..Len(px.attempts) : px.attempts[k] = "sent" => k = Len(px.attempts)
    /\ px.sent = Cardinality({k \in 1..Len(px.attempts) : px.attempts[k] = "sent"})
    /\ px.result = "returned" <=> px.sent = 1
    /\ (px.pc = "done" /\ px.result = "raised") => Len(px.attempts) = 3

\* C34: the third attempt delivers after two failed ones
C34_Witness ==
    /\ px.result = "returned"
    /\ px.attempts = <<"login", "send", "sent">>

\* C35: when every attempt of send_email fails it raises the error of the
\* last failed attempt, also when every attempt fails at the connection step.
C35_RaisesLastError ==
    px.result = "raised" =>
        px.raised = ErrorOf(Len(px.attempts), px.attempts[Len(px.attempts)])

\* C35, what holds: the error raised is that of the last attempt that failed
\* in send_message, when there is one
C35_RaisesLastSendError ==
    px.result = "raised" =>
        \A k \in 1..Len(px.attempts) :
            (px.attempts[k] = "send" /\ \A j \in (k + 1)..Len(px.attempts) : px.attempts[j] # "send")
                => px.raised = ErrorOf(k, "send")

\* C35: every attempt failed at the connection step and a TypeError came out
C35_TypeErrorSeen ==
    px.result = "raised" /\ px.raised = TypeError

\* C36: when send_email finishes, by returning or by raising, the provider
\* holds no open SMTP connection, also when the last attempt failed during
\* connect after the socket was opened.
C36_NoOpenConnectionAtEnd ==
    px.pc = "done" => px.smtp # "open"

\* C36, what holds: no connection is left open by a call whose last attempt
\* got as far as send_message
C36_ClosedAfterSendMessage ==
    (px.pc = "done" /\ px.attempts[Len(px.attempts)] \in {"sent", "send"}) => px.smtp # "open"

(***************************************************************************)
(* SlackClient._handle_all_events on its own: one call for one request,    *)
(* with rt the run.  The listeners are the three the program registers; of *)
(* them only handle_slack_event can raise (its own acknowledgement is sent *)
(* outside its try), and the order of the list is an input.                *)
(***************************************************************************)
\* the orders of socket_mode_request_listeners
ListenerOrders ==
    {ls \in [1..3 -> {socket_mode_request_listeners[k] : k \in 1..3}] :
        \A a, b \in 1..3 : ls[a] = ls[b] => a = b}

\* the listeners that can raise out of their call
RaisingListeners == {"handle_slack_event"}

RequestTypes == {"events_api", "interactive"}

InitDispatch ==
    /\ BotInit
    /\ bot = [phase |-> "running", env |-> Credentials]
    /\ px = "idle"
    /\ rt \in [pc : {"ack"}, type : RequestTypes, listeners : ListenerOrders,
               idx : {1}, trace : {<<>>}, log : {<<>>}]

\* the position of the for loop after position k: the next listener that is
\* not _handle_all_events itself
RECURSIVE NextListener(_, _)
NextListener(ls, k) ==
    IF k > Len(ls) THEN k
    ELSE IF ls[k] = "_handle_all_events" THEN NextListener(ls, k + 1)
    ELSE k

\* a loop that a raising listener ends
StopOnRaise(run, raised) ==
    IF raised \/ NextListener(run.listeners, run.idx + 1) > Len(run.listeners)
    THEN [run EXCEPT !.pc = "done"]
    ELSE [run EXCEPT !.idx = NextListener(run.listeners, run.idx + 1)]

\* the loop after a listener returned or its exception was caught and logged
AfterHandler(run, raised) ==
    IF NextListener(run.listeners, run.idx + 1) > Len(run.listeners)
    THEN [run EXCEPT !.pc = "done"]
    ELSE [run EXCEPT !.idx = NextListener(run.listeners, run.idx + 1)]

\* lines 52-55: the acknowledgement is sent, or the send raises into the
\* outer except
HA_Ack ==
    /\ rt.pc = "ack"
    /\ \/ rt' = [rt EXCEPT !.trace = Append(@, [what |-> "ack", name |-> "_handle_all_events", ok |-> TRUE]),
                           !.idx = NextListener(rt.listeners, 1),
                           !.pc = IF NextListener(rt.listeners, 1) > Len(rt.listeners)
                                  THEN "done" ELSE "loop"]
       \/ rt' = [rt EXCEPT !.trace = Append(@, [what |-> "ack", name |-> "_handle_all_events", ok |-> FALSE]),
                           !.log = Append(@, "Error in event handler"),
                           !.pc = "ack_again"]
    /\ UNCHANGED <<botvars, px>>

\* lines 66-74: the outer except sends the acknowledgement once more
HA_AckAgain ==
    /\ rt.pc = "ack_again"
    /\ \/ rt' = [rt EXCEPT !.trace = Append(@, [what |-> "ack", name |-> "_handle_all_events", ok |-> TRUE]),
                           !.pc = "done"]
       \/ rt' = [rt EXCEPT !.trace = Append(@, [what |-> "ack", name |-> "_handle_all_events", ok |-> FALSE]),
                           !.log = Append(@, "Error acknowledging request"),
                           !.pc = "done"]
    /\ UNCHANGED <<botvars, px>>

\* lines 58-64: the listener at the loop's position is awaited; it returns, or
\* it raises and the exception is logged
HA_Listener ==
    /\ rt.pc = "loop"
    /\ \/ rt' = AfterHandler([rt EXCEPT !.trace = Append(@, [what |-> "listener",
                                                             name |-> rt.listeners[rt.idx],
                                                             ok |-> TRUE])], FALSE)
       \/ /\ rt.listeners[rt.idx] \in RaisingListeners
          /\ rt' = AfterHandler([rt EXCEPT !.trace = Append(@, [what |-> "listener",
                                                                name |-> rt.listeners[rt.idx],
                                                                ok |-> FALSE]),
                                           !.log = Append(@, "Handler error")], TRUE)
    /\ UNCHANGED <<botvars, px>>

NextDispatch == HA_Ack \/ HA_AckAgain \/ HA_Listener

SpecDispatch == InitDispatch /\ [][NextDispatch]_vars

\* the listeners the run awaited, in order
Awaited(trace) ==
    LET ran == SelectSeq(trace, LAMBDA t : t.what = "listener")
    IN  [k \in 1..Len(ran) |-> ran[k].name]

\* C38: for every inbound socket event the all-events listener sends the
\* acknowledgement before it runs any other registered listener, and a
\* listener that raises does not stop the remaining listeners from running
\* for that event.
C38_AckThenEveryListener ==
    /\ \A k \in 1..Len(rt.trace) :
          rt.trace[k].what = "listener" =>
              /\ rt.trace[1] = [what |-> "ack", name |-> "_handle_all_events", ok |-> TRUE]
              /\ k > 1
    /\ (rt.pc = "done" /\ rt.trace[1].ok) =>
          Awaited(rt.trace) = SelectSeq(rt.listeners, LAMBDA l : l # "_handle_all_events")

\* C38: handle_slack_event raised and handle_interaction, after it in the
\* list, was still awaited
C38_Witness ==
    /\ rt.pc = "done"
    /\ Len(rt.trace) = 3
    /\ rt.trace[2] = [what |-> "listener", name |-> "handle_slack_event", ok |-> FALSE]
    /\ rt.trace[3] = [what |-> "listener", name |-> "handle_interaction", ok |-> TRUE]

====
